---- MODULE Spec2Model ----
(***************************************************************************)
(* Lock-free single-producer/single-consumer audio frame ring buffer of    *)
(* AudiDesk: the C functions AudioRingBuffer_* (AudioRingBuffer.c), the    *)
(* C++ class AudioRingBuffer (AudioRingBuffer.hpp) and the driver's class  *)
(* RingBuffer (AudiDeckDriver.cpp).                                        *)
(*                                                                         *)
(* One writer thread and one reader thread run the operations step by      *)
(* step: every atomic cursor load, every per-frame copy and every atomic   *)
(* cursor store is one step.  Memory is sequentially consistent: the C     *)
(* code and the driver use seq_cst atomics, the C++ class acquire/release  *)
(* with a release fence before the publishing store.                       *)
(***************************************************************************)
EXTENDS Integers, Sequences, FiniteSets, TLC

VARIABLES
    impl,       \* which of the three implementations: "c", "hpp" or "drv"
    cr,         \* AudioRingBuffer_Create / constructor: position and locals
    rb,         \* the ring buffer object: store, size, channels, two cursors
    wr,         \* the writer thread: position in write() and its locals
    rd,         \* the reader thread: position in read()/peek()/skip(), locals
    srcCount,   \* history: source frames offered to write() so far
    accepted,   \* history: frames accepted by write() since create/reset
    consumed,   \* history: frames delivered by read() or passed by skip()
    dropped,    \* history: samples of the source frames write() did not accept
    gState,     \* the driver's PlugInState: clientCount, isRunning, mutex
    ctl         \* the host's control calls: position of each client's
                \* Plugin_StartIO / Plugin_StopIO, and its Plugin_DoIO in flight

vars == <<impl, cr, rb, wr, rd, srcCount, accepted, consumed, dropped,
          gState, ctl>>

----------------------------------------------------------------------------
(* Bounds of the model *)

\* largest requested capacity, in frames, of a buffer whose store is modelled
MaxReq == 3
\* largest channel count
MaxChannels == 2
\* largest frameCount of one call
MaxFrames == 2
\* source frames offered to write() in one behaviour
MaxSrc == 4

Impls == {"c", "hpp", "drv"}

\* struct PlugInState as its initializers leave it (the fields the ring
\* buffer depends on); the mutex is free or held by the call of a client
NewPlugInState ==
    [ clientCount |-> 0,
      isRunning   |-> FALSE,
      mutex       |-> "free" ]

\* no client of the driver
NoClients == << >>

Min(a, b) == IF a < b THEN a ELSE b

----------------------------------------------------------------------------
(* uint32_t, kept at its width.  A value is the pair <<hi, lo>> of its two *)
(* 16-bit halves, so that 2^31 and above stay representable.               *)

U32Of(n) == <<n \div 2^16, n % 2^16>>

U32Int(x) == x[1] * 2^16 + x[2]

\* x <<= 1 on a uint32_t: the top bit is shifted out
U32Shl1(x) ==
    LET lo2 == x[2] * 2
    IN  <<(x[1] * 2 + lo2 \div 2^16) % 2^16, lo2 % 2^16>>

\* a < b on uint32_t
U32Less(a, b) == a[1] < b[1] \/ (a[1] = b[1] /\ a[2] < b[2])

----------------------------------------------------------------------------
(* Construction *)

\* calloc(totalSamples, sizeof(float)) / new float[n]() / memset(.., 0, ..)
ZeroStore(frames, channels) == [j \in 0 .. frames * channels - 1 |-> 0]

\* NewRingBuffer with the store left as the allocator gave it
NewRingBufferStoreNotCleared(frames, channels) ==
    [ buffer       |-> [j \in 0 .. frames * channels - 1 |-> 0 - 9],
      bufferSize   |-> frames,
      channelCount |-> channels,
      writeIndex   |-> 0,
      readIndex    |-> 0 ]

\* the object after a successful construction
NewRingBuffer(frames, channels) ==
    [ buffer       |-> ZeroStore(frames, channels),
      bufferSize   |-> frames,
      channelCount |-> channels,
      writeIndex   |-> 0,
      readIndex    |-> 0 ]

\* no object: AudioRingBuffer_Create has not returned one
NullBuffer ==
    [ buffer       |-> << >>,
      bufferSize   |-> 0,
      channelCount |-> 0,
      writeIndex   |-> 0,
      readIndex    |-> 0 ]

\* RoundUpLoop taking the request as it is
RoundUpLoopExact(size, bufferSizeFrames) == bufferSizeFrames

\* uint32_t size = 1; while (size < bufferSizeFrames) size <<= 1;
RECURSIVE RoundUpLoop(_, _)
RoundUpLoop(size, bufferSizeFrames) ==
    IF U32Less(size, bufferSizeFrames)
    THEN RoundUpLoop(U32Shl1(size), bufferSizeFrames)
    ELSE size

\* the capacity the constructor realizes; the driver's RingBuffer takes the
\* frame count as it is
RealizedSize(im, frames) ==
    IF im = "drv" THEN frames ELSE U32Int(RoundUpLoop(U32Of(1), U32Of(frames)))

----------------------------------------------------------------------------
(* Ring arithmetic *)

\* a & b on unsigned integers, bit by bit
RECURSIVE BitAnd(_, _)
BitAnd(a, b) ==
    IF a = 0 \/ b = 0
    THEN 0
    ELSE (a % 2) * (b % 2) + 2 * BitAnd(a \div 2, b \div 2)

\* BufferPos holding every index past the end of the store at the last slot
BufferPosSaturating(im, b, idx) ==
    IF idx >= b.bufferSize THEN b.bufferSize - 1 ELSE idx

\* the slot of frame index idx: (idx & bufferMask) in the C code and the C++
\* class, (idx % mFrames) in the driver
BufferPos(im, b, idx) ==
    IF im = "drv" THEN idx % b.bufferSize ELSE BitAnd(idx, b.bufferSize - 1)

\* Avail32 counting one frame too many
Avail32OffByOne(writeIdx, readIdx) == writeIdx - readIdx + 1

\* (uint32_t)(writeIdx - readIdx).  The cursors of the model stay far below
\* 2^32; a negative result stands for the wrapped value 2^32 + (writeIdx -
\* readIdx), which is larger than every frame count of the model.
Avail32(writeIdx, readIdx) == writeIdx - readIdx

\* Min32 without the clamp: the count asked for is taken as it is
Min32NoClamp(frameCount, n) == frameCount

\* (frameCount < n) ? frameCount : n, with n a uint32_t as Avail32 gives it
Min32(frameCount, n) == IF n < 0 THEN frameCount ELSE Min(frameCount, n)

\* AudioRingBuffer_GetAvailableFrames on a quiescent buffer
AvailableFrames(b) == Avail32(b.writeIndex, b.readIndex)

\* FreeFrames taking the buffer to be empty
FreeFramesOfEmpty(b) == b.bufferSize

\* AudioRingBuffer_GetFreeFrames on a quiescent buffer
FreeFrames(b) == b.bufferSize - AvailableFrames(b)

\* CopyFrameIn copying the first channel only
CopyFrameInFirstChannel(buffer, bufferPos, data, i, channelCount) ==
    LET bufferOffset == bufferPos * channelCount
        dataOffset   == i * channelCount
    IN  [j \in DOMAIN buffer |->
            IF j = bufferOffset THEN data[dataOffset] ELSE buffer[j]]

\* the inner loop of write(): frame i of data goes to slot bufferPos
CopyFrameIn(buffer, bufferPos, data, i, channelCount) ==
    LET bufferOffset == bufferPos * channelCount
        dataOffset   == i * channelCount
    IN  [j \in DOMAIN buffer |->
            IF j >= bufferOffset /\ j < bufferOffset + channelCount
            THEN data[dataOffset + (j - bufferOffset)]
            ELSE buffer[j]]

\* CopyFrameOut with the frame index taken as the sample offset
CopyFrameOutFrameStride(data, i, buffer, bufferPos, channelCount) ==
    LET bufferOffset == bufferPos * channelCount
        dataOffset   == i
    IN  [j \in DOMAIN data |->
            IF j >= dataOffset /\ j < dataOffset + channelCount
            THEN buffer[bufferOffset + (j - dataOffset)]
            ELSE data[j]]

\* the inner loop of read()/peek(): slot bufferPos goes to frame i of data
CopyFrameOut(data, i, buffer, bufferPos, channelCount) ==
    LET bufferOffset == bufferPos * channelCount
        dataOffset   == i * channelCount
    IN  [j \in DOMAIN data |->
            IF j >= dataOffset /\ j < dataOffset + channelCount
            THEN buffer[bufferOffset + (j - dataOffset)]
            ELSE data[j]]

\* FillSilence filling nothing
FillSilenceNothing(data, from, to, channelCount) == data

\* memset(data + from * channelCount, 0, (to - from) * channelCount floats)
FillSilence(data, from, to, channelCount) ==
    [j \in DOMAIN data |->
        IF j >= from * channelCount /\ j < to * channelCount
        THEN 0
        ELSE data[j]]

\* the channelCount samples of frame i of an interleaved block
Frame(block, i, channelCount) ==
    [c \in 0 .. channelCount - 1 |-> block[i * channelCount + c]]

\* frames from .. to-1 of an interleaved block, as a sequence
Frames(block, from, to, channelCount) ==
    [k \in 1 .. to - from |-> Frame(block, from + k - 1, channelCount)]

\* ResetBuffer leaving the store as it is
ResetBufferCursorsOnly(b) ==
    [b EXCEPT !.writeIndex = 0, !.readIndex = 0]

\* ResetBuffer leaving the write cursor where it is
ResetBufferReadCursorOnly(b) ==
    [b EXCEPT !.readIndex = 0,
              !.buffer    = ZeroStore(b.bufferSize, b.channelCount)]

\* AudioRingBuffer_Reset / reset(): both cursors 0, the store zeroed
ResetBuffer(b) ==
    [b EXCEPT !.writeIndex = 0,
              !.readIndex  = 0,
              !.buffer     = ZeroStore(b.bufferSize, b.channelCount)]

----------------------------------------------------------------------------
(* write(), step by step.  A step takes the object and the writer's locals *)
(* and gives both back: [rb |-> .., t |-> ..].                             *)

Out(b, t) == [rb |-> b, t |-> t]

IdleWriter ==
    [ pc            |-> "idle",
      data          |-> << >>,
      frameCount    |-> 0,
      writeIdx      |-> 0,
      readIdx       |-> 0,
      framesToWrite |-> 0,
      i             |-> 0,
      ret           |-> 0 ]

\* the caller's block: frameCount frames of channels samples, every sample
\* of the behaviour distinct and nonzero (first = frames offered before)
SourceBlock(first, frameCount, channels) ==
    [j \in 0 .. frameCount * channels - 1 |-> first * channels + j + 1]

\* return ret from write(): the locals of the call are gone, the caller
\* keeps its block, its frame count and the value returned
WriteReturn(w, ret) ==
    [ IdleWriter EXCEPT !.data = w.data, !.frameCount = w.frameCount,
                        !.ret = ret ]

\* entry of write(): the C function returns 0 at once for frameCount == 0,
\* the two classes go on to load the cursors
WriteCall(im, data, frameCount) ==
    [ IdleWriter EXCEPT
        !.pc         = IF im = "c" /\ frameCount = 0 THEN "idle" ELSE "avail_w",
        !.data       = data,
        !.frameCount = frameCount ]

\* uint64_t writeIdx = atomic_load(&buffer->writeIndex), in GetAvailableFrames
WriteAvailW(b, w) ==
    Out(b, [w EXCEPT !.writeIdx = b.writeIndex, !.pc = "avail_r"])

\* WriteAvailR taking a full buffer to have one free frame
WriteAvailROffByOne(im, b, w) ==
    LET readIdx       == b.readIndex
        freeFrames    == b.bufferSize - Avail32(w.writeIdx, readIdx) + 1
        framesToWrite == Min32(w.frameCount, freeFrames)
        t == [w EXCEPT !.readIdx       = readIdx,
                       !.framesToWrite = framesToWrite,
                       !.i             = 0]
    IN  IF im = "drv"
        THEN Out(b, [t EXCEPT !.pc = IF framesToWrite = 0
                                     THEN "publish" ELSE "copy"])
        ELSE IF framesToWrite = 0
        THEN Out(b, [IdleWriter EXCEPT !.data = w.data,
                                       !.frameCount = w.frameCount])
        ELSE Out(b, [t EXCEPT !.pc = "load_w"])

\* WriteAvailR waiting for space: with nothing to write the cursors are
\* loaded again
WriteAvailRWaitsForSpace(im, b, w) ==
    LET readIdx       == b.readIndex
        freeFrames    == b.bufferSize - Avail32(w.writeIdx, readIdx)
        framesToWrite == Min32(w.frameCount, freeFrames)
        t == [w EXCEPT !.readIdx       = readIdx,
                       !.framesToWrite = framesToWrite,
                       !.i             = 0]
    IN  IF framesToWrite = 0 /\ w.frameCount # 0
        THEN Out(b, [w EXCEPT !.pc = "avail_w"])
        ELSE IF im = "drv"
        THEN Out(b, [t EXCEPT !.pc = IF framesToWrite = 0
                                     THEN "publish" ELSE "copy"])
        ELSE IF framesToWrite = 0
        THEN Out(b, WriteReturn(w, 0))
        ELSE Out(b, [t EXCEPT !.pc = "load_w"])

\* WriteAvailR taking the whole store to be free
WriteAvailRIgnoresBacklog(im, b, w) ==
    LET readIdx       == b.readIndex
        framesToWrite == Min32(w.frameCount, b.bufferSize)
        t == [w EXCEPT !.readIdx       = readIdx,
                       !.framesToWrite = framesToWrite,
                       !.i             = 0]
    IN  IF im = "drv"
        THEN Out(b, [t EXCEPT !.pc = IF framesToWrite = 0
                                     THEN "publish" ELSE "copy"])
        ELSE IF framesToWrite = 0
        THEN Out(b, WriteReturn(w, 0))
        ELSE Out(b, [t EXCEPT !.pc = "load_w"])

\* the load of readIndex, then free = bufferSize - available and
\* framesToWrite = min(frameCount, free).  The C function and the C++ class
\* return 0 when nothing fits and load writeIndex again otherwise; the
\* driver goes on with the cursor it loaded.
WriteAvailR(im, b, w) ==
    LET readIdx       == b.readIndex
        freeFrames    == b.bufferSize - Avail32(w.writeIdx, readIdx)
        framesToWrite == Min32(w.frameCount, freeFrames)
        t == [w EXCEPT !.readIdx       = readIdx,
                       !.framesToWrite = framesToWrite,
                       !.i             = 0]
    IN  IF im = "drv"
        THEN Out(b, [t EXCEPT !.pc = IF framesToWrite = 0
                                     THEN "publish" ELSE "copy"])
        ELSE IF framesToWrite = 0
        THEN Out(b, WriteReturn(w, 0))
        ELSE Out(b, [t EXCEPT !.pc = "load_w"])

\* WriteLoadW storing the advanced cursor before the frames are copied
WriteLoadWPublishEarly(b, w) ==
    Out([b EXCEPT !.writeIndex = b.writeIndex + w.framesToWrite],
        [w EXCEPT !.writeIdx = b.writeIndex, !.pc = "copy"])

\* uint64_t writeIdx = atomic_load(&buffer->writeIndex), in write()
WriteLoadW(b, w) ==
    Out(b, [w EXCEPT !.writeIdx = b.writeIndex, !.pc = "copy"])

\* WriteCopy putting frame i one slot too early
WriteCopyOneSlotEarly(im, b, w) ==
    LET bufferPos == BufferPos(im, b, w.writeIdx + w.i + b.bufferSize - 1)
    IN  Out([b EXCEPT !.buffer = CopyFrameIn(b.buffer, bufferPos, w.data,
                                             w.i, b.channelCount)],
            [w EXCEPT !.i  = w.i + 1,
                      !.pc = IF w.i + 1 < w.framesToWrite
                             THEN "copy" ELSE "publish"])

\* one pass of the frame loop: frame i into slot (writeIdx + i) mod size
WriteCopy(im, b, w) ==
    LET bufferPos == BufferPos(im, b, w.writeIdx + w.i)
    IN  Out([b EXCEPT !.buffer = CopyFrameIn(b.buffer, bufferPos, w.data,
                                             w.i, b.channelCount)],
            [w EXCEPT !.i  = w.i + 1,
                      !.pc = IF w.i + 1 < w.framesToWrite
                             THEN "copy" ELSE "publish"])

\* WritePublish advancing by, and returning, the count asked for
WritePublishFrameCount(b, w) ==
    Out([b EXCEPT !.writeIndex = w.writeIdx + w.frameCount],
        WriteReturn(w, w.frameCount))

\* WritePublish storing the cursor reduced modulo the capacity
WritePublishWrapped(b, w) ==
    Out([b EXCEPT !.writeIndex = (w.writeIdx + w.framesToWrite) % b.bufferSize],
        WriteReturn(w, w.framesToWrite))

\* WritePublish returning the count without the store of the cursor
WritePublishNoStore(b, w) ==
    Out(b, WriteReturn(w, w.framesToWrite))

\* atomic_store(&buffer->writeIndex, writeIdx + framesToWrite); return
WritePublish(b, w) ==
    Out([b EXCEPT !.writeIndex = w.writeIdx + w.framesToWrite],
        WriteReturn(w, w.framesToWrite))

\* the step of write() at the writer's position
WriteStep(im, b, w) ==
    CASE w.pc = "avail_w" -> WriteAvailW(b, w)
      [] w.pc = "avail_r" -> WriteAvailR(im, b, w)
      [] w.pc = "load_w"  -> WriteLoadW(b, w)
      [] w.pc = "copy"    -> WriteCopy(im, b, w)
      [] w.pc = "publish" -> WritePublish(b, w)

\* a whole write() with no step of the reader in between
RECURSIVE RunWriteFrom(_, _)
RunWriteFrom(im, s) ==
    IF s.t.pc = "idle" THEN s ELSE RunWriteFrom(im, WriteStep(im, s.rb, s.t))

RunWrite(im, b, w) == RunWriteFrom(im, Out(b, w))

----------------------------------------------------------------------------
(* read(), peek() and skip(), step by step *)

IdleReader ==
    [ pc           |-> "idle",
      op           |-> "none",
      data         |-> << >>,
      frameCount   |-> 0,
      writeIdx     |-> 0,
      readIdx      |-> 0,
      framesToRead |-> 0,
      i            |-> 0,
      ret          |-> 0 ]

\* the caller's output block before the call: sample j holds -(j+1), which
\* is neither silence nor a sample of any source frame
OutputBlock(frameCount, channels) ==
    [j \in 0 .. frameCount * channels - 1 |-> 0 - (j + 1)]

\* return ret from read(), peek() or skip(): the locals of the call are
\* gone, the caller keeps its block, its frame count and the value returned
ReadReturn(r, data, ret) ==
    [ IdleReader EXCEPT !.op = r.op, !.data = data,
                        !.frameCount = r.frameCount, !.ret = ret ]

\* entry of read(), peek() or skip(): the C functions return at once for
\* frameCount == 0, the two classes go on to load the cursors
ReadCall(im, op, data, frameCount) ==
    [ IdleReader EXCEPT
        !.pc         = IF im = "c" /\ frameCount = 0 THEN "idle" ELSE "avail_w",
        !.op         = op,
        !.data       = data,
        !.frameCount = frameCount ]

\* ReadAvailW counting a frame the writer has not published
ReadAvailWAhead(b, r) ==
    Out(b, [r EXCEPT !.writeIdx = b.writeIndex + 1, !.pc = "avail_r"])

\* uint64_t writeIdx = atomic_load(&buffer->writeIndex), in GetAvailableFrames
ReadAvailW(b, r) ==
    Out(b, [r EXCEPT !.writeIdx = b.writeIndex, !.pc = "avail_r"])

\* ReadAvailR silencing one frame more than asked for when nothing is read
ReadAvailRSilencesOneMore(im, b, r) ==
    LET readIdx      == b.readIndex
        framesToRead == Min32(r.frameCount, Avail32(r.writeIdx, readIdx))
        t == [r EXCEPT !.readIdx      = readIdx,
                       !.framesToRead = framesToRead,
                       !.i            = 0]
    IN  IF im = "drv"
        THEN Out(b, [t EXCEPT !.pc = IF framesToRead = 0
                                     THEN "advance" ELSE "copy"])
        ELSE IF framesToRead # 0
        THEN Out(b, [t EXCEPT !.pc = "load_r"])
        ELSE Out(b, ReadReturn(r,
                               IF r.op = "read"
                               THEN FillSilence(r.data, 0, r.frameCount + 1,
                                                b.channelCount)
                               ELSE r.data,
                               0))

\* ReadAvailR with skip() taking the count asked for, unclamped
ReadAvailRSkipUnclamped(im, b, r) ==
    LET readIdx      == b.readIndex
        framesToRead == IF r.op = "skip" THEN r.frameCount
                        ELSE Min32(r.frameCount, Avail32(r.writeIdx, readIdx))
        t == [r EXCEPT !.readIdx      = readIdx,
                       !.framesToRead = framesToRead,
                       !.i            = 0]
    IN  IF im = "drv"
        THEN Out(b, [t EXCEPT !.pc = IF framesToRead = 0
                                     THEN "advance" ELSE "copy"])
        ELSE IF framesToRead # 0
        THEN Out(b, [t EXCEPT !.pc = "load_r"])
        ELSE Out(b, ReadReturn(r,
                               IF r.op = "read"
                               THEN FillSilence(r.data, 0, r.frameCount,
                                                b.channelCount)
                               ELSE r.data,
                               0))

\* the load of readIndex, then framesToRead = min(frameCount, available).
\* With nothing to read the C function and the C++ class silence the whole
\* block (read) or leave it (peek, skip) and return 0; the driver's read
\* goes on to its silence loop and its store.
ReadAvailR(im, b, r) ==
    LET readIdx      == b.readIndex
        framesToRead == Min32(r.frameCount, Avail32(r.writeIdx, readIdx))
        t == [r EXCEPT !.readIdx      = readIdx,
                       !.framesToRead = framesToRead,
                       !.i            = 0]
    IN  IF im = "drv"
        THEN Out(b, [t EXCEPT !.pc = IF framesToRead = 0
                                     THEN "advance" ELSE "copy"])
        ELSE IF framesToRead # 0
        THEN Out(b, [t EXCEPT !.pc = "load_r"])
        ELSE Out(b, ReadReturn(r,
                               IF r.op = "read"
                               THEN FillSilence(r.data, 0, r.frameCount,
                                                b.channelCount)
                               ELSE r.data,
                               0))

\* uint64_t readIdx = atomic_load(&buffer->readIndex), in read/peek/skip
ReadLoadR(b, r) ==
    Out(b, [r EXCEPT !.readIdx = b.readIndex,
                     !.pc      = IF r.op = "skip" THEN "advance" ELSE "copy"])

\* ReadCopy with peek() going on to the store of the cursor as read() does
ReadCopyPeekAdvances(im, b, r) ==
    LET bufferPos == BufferPos(im, b, r.readIdx + r.i)
        data      == CopyFrameOut(r.data, r.i, b.buffer, bufferPos,
                                  b.channelCount)
    IN  Out(b, [r EXCEPT !.data = data, !.i = r.i + 1,
                         !.pc = IF r.i + 1 < r.framesToRead
                                THEN "copy" ELSE "advance"])

\* one pass of the frame loop: slot (readIdx + i) mod size into frame i;
\* peek() returns after its last pass
ReadCopy(im, b, r) ==
    LET bufferPos == BufferPos(im, b, r.readIdx + r.i)
        data      == CopyFrameOut(r.data, r.i, b.buffer, bufferPos,
                                  b.channelCount)
    IN  IF r.i + 1 < r.framesToRead
        THEN Out(b, [r EXCEPT !.data = data, !.i = r.i + 1])
        ELSE IF r.op = "peek"
        THEN Out(b, ReadReturn(r, data, r.framesToRead))
        ELSE Out(b, [r EXCEPT !.data = data, !.i = r.i + 1,
                              !.pc = "advance"])

\* ReadAdvance moving the cursor by the count asked for
ReadAdvanceByFrameCount(b, r) ==
    Out([b EXCEPT !.readIndex = r.readIdx + r.frameCount],
        ReadReturn(r,
                   IF r.op = "read"
                   THEN FillSilence(r.data, r.framesToRead, r.frameCount,
                                    b.channelCount)
                   ELSE r.data,
                   IF r.op = "read" THEN r.framesToRead ELSE 0))

\* ReadAdvance storing the write cursor it loaded along with its own
ReadAdvanceStoresWriteCursor(b, r) ==
    Out([b EXCEPT !.readIndex  = r.readIdx + r.framesToRead,
                  !.writeIndex = r.writeIdx],
        ReadReturn(r,
                   IF r.op = "read"
                   THEN FillSilence(r.data, r.framesToRead, r.frameCount,
                                    b.channelCount)
                   ELSE r.data,
                   IF r.op = "read" THEN r.framesToRead ELSE 0))

\* ReadAdvance with skip() returning without the store of the cursor
ReadAdvanceSkipStays(b, r) ==
    Out([b EXCEPT !.readIndex = IF r.op = "skip" THEN b.readIndex
                                ELSE r.readIdx + r.framesToRead],
        ReadReturn(r,
                   IF r.op = "read"
                   THEN FillSilence(r.data, r.framesToRead, r.frameCount,
                                    b.channelCount)
                   ELSE r.data,
                   IF r.op = "read" THEN r.framesToRead ELSE 0))

\* atomic_store(&buffer->readIndex, readIdx + framesToRead); read() also
\* silences frames framesToRead .. frameCount-1 of the block; return
ReadAdvance(b, r) ==
    Out([b EXCEPT !.readIndex = r.readIdx + r.framesToRead],
        ReadReturn(r,
                   IF r.op = "read"
                   THEN FillSilence(r.data, r.framesToRead, r.frameCount,
                                    b.channelCount)
                   ELSE r.data,
                   IF r.op = "read" THEN r.framesToRead ELSE 0))

\* the step of read(), peek() or skip() at the reader's position
ReadStep(im, b, r) ==
    CASE r.pc = "avail_w" -> ReadAvailW(b, r)
      [] r.pc = "avail_r" -> ReadAvailR(im, b, r)
      [] r.pc = "load_r"  -> ReadLoadR(b, r)
      [] r.pc = "copy"    -> ReadCopy(im, b, r)
      [] r.pc = "advance" -> ReadAdvance(b, r)

\* a whole read(), peek() or skip() with no step of the writer in between
RECURSIVE RunReadFrom(_, _)
RunReadFrom(im, s) ==
    IF s.t.pc = "idle" THEN s ELSE RunReadFrom(im, ReadStep(im, s.rb, s.t))

RunRead(im, b, r) == RunReadFrom(im, Out(b, r))

----------------------------------------------------------------------------
(* The state after construction *)

\* what a successful construction has allocated and holds: the C function
\* the descriptor and the store, the constructors of the two classes the
\* store
CreatedHeap(im) == IF im = "c" THEN {"descriptor", "store"} ELSE {"store"}

CreatedRecord(frames, size, channels) ==
    [ pc               |-> "created",
      bufferSizeFrames |-> U32Of(frames),
      powerOf2Size     |-> U32Of(size),
      channelCount     |-> channels,
      heap             |-> CreatedHeap(impl),
      failed           |-> "none" ]

Init ==
    /\ impl \in Impls
    /\ \E frames \in 1 .. MaxReq, channels \in 1 .. MaxChannels :
         LET size == RealizedSize(impl, frames)
         IN  /\ cr = CreatedRecord(frames, size, channels)
             /\ rb = NewRingBuffer(size, channels)
    /\ wr = IdleWriter
    /\ rd = IdleReader
    /\ srcCount = 0
    /\ accepted = << >>
    /\ consumed = << >>
    /\ dropped = {}
    /\ gState = NewPlugInState
    /\ ctl = NoClients

----------------------------------------------------------------------------
(* The writer thread *)

\* history after a step of the writer that ends in t: a returning write()
\* has accepted the first ret frames of its block
AcceptedAfter(t) ==
    IF t.pc = "idle"
    THEN accepted \o Frames(t.data, 0, t.ret, rb.channelCount)
    ELSE accepted

\* history after a step of the writer that ends in t: a returning write()
\* has dropped the samples of the frames ret .. frameCount-1 of its block
DroppedAfter(t) ==
    IF t.pc = "idle"
    THEN dropped \cup { t.data[j] : j \in t.ret * rb.channelCount ..
                                          t.frameCount * rb.channelCount - 1 }
    ELSE dropped

\* the writer calls write(data, frameCount)
WriteBegin ==
    /\ cr.pc = "created"
    /\ wr.pc = "idle"
    /\ \E frameCount \in 0 .. MaxFrames :
         /\ srcCount + frameCount <= MaxSrc
         /\ wr' = WriteCall(impl, SourceBlock(srcCount, frameCount,
                                              rb.channelCount), frameCount)
         /\ srcCount' = srcCount + frameCount
    /\ UNCHANGED <<gState, ctl, impl, cr, rb, rd, accepted, consumed, dropped>>

\* the writer takes the step of write() it is at
WriterMoves ==
    /\ wr.pc # "idle"
    /\ \E n \in {WriteStep(impl, rb, wr)} :
           /\ rb' = n.rb
           /\ wr' = n.t
           /\ accepted' = AcceptedAfter(n.t)
           /\ dropped' = DroppedAfter(n.t)
    /\ UNCHANGED <<gState, ctl, impl, cr, rd, srcCount, consumed>>

WAvailW  == wr.pc = "avail_w" /\ WriterMoves
WAvailR  == wr.pc = "avail_r" /\ WriterMoves
WLoadW   == wr.pc = "load_w"  /\ WriterMoves
WCopy    == wr.pc = "copy"    /\ WriterMoves
WPublish == wr.pc = "publish" /\ WriterMoves

----------------------------------------------------------------------------
(* The reader thread *)

\* peek and skip exist in the C functions only
ReaderOps(im) == IF im = "c" THEN {"read", "peek", "skip"} ELSE {"read"}

\* the frames in the store at frame indexes from .. to-1
StoredFrames(im, b, from, to) ==
    [k \in 1 .. to - from |->
        Frame(b.buffer, BufferPos(im, b, from + k - 1), b.channelCount)]

\* history after a step of the reader from r to t: a returning read() has
\* delivered the first ret frames of its block, a returning skip() has
\* passed over the frames that were in the slots it skipped
ConsumedAfter(r, t) ==
    IF t.pc # "idle" \/ t.op = "peek"
    THEN consumed
    ELSE IF t.op = "read"
    THEN consumed \o Frames(t.data, 0, t.ret, rb.channelCount)
    ELSE IF r.pc = "advance"
    THEN consumed \o StoredFrames(impl, rb, r.readIdx,
                                  r.readIdx + r.framesToRead)
    ELSE consumed

\* the reader calls read, peek or skip with frameCount
ReadBegin ==
    /\ cr.pc = "created"
    /\ rd.pc = "idle"
    /\ \E op \in ReaderOps(impl), frameCount \in 0 .. MaxFrames :
         rd' = ReadCall(impl, op,
                        IF op = "skip" THEN << >>
                        ELSE OutputBlock(frameCount, rb.channelCount),
                        frameCount)
    /\ UNCHANGED <<gState, ctl, impl, cr, rb, wr, srcCount, accepted, consumed, dropped>>

\* the reader takes the step of read(), peek() or skip() it is at
ReaderMoves ==
    /\ rd.pc # "idle"
    /\ \E n \in {ReadStep(impl, rb, rd)} :
           /\ rb' = n.rb
           /\ rd' = n.t
           /\ consumed' = ConsumedAfter(rd, n.t)
    /\ UNCHANGED <<gState, ctl, impl, cr, wr, srcCount, accepted, dropped>>

RAvailW  == rd.pc = "avail_w" /\ ReaderMoves
RAvailR  == rd.pc = "avail_r" /\ ReaderMoves
RLoadR   == rd.pc = "load_r"  /\ ReaderMoves
RCopy    == rd.pc = "copy"    /\ ReaderMoves
RAdvance == rd.pc = "advance" /\ ReaderMoves

----------------------------------------------------------------------------
(* reset(), run by the owner while no write or read is in flight *)

Reset ==
    /\ cr.pc = "created"
    /\ wr.pc = "idle"
    /\ rd.pc = "idle"
    /\ rb' = ResetBuffer(rb)
    /\ accepted' = << >>
    /\ consumed' = << >>
    /\ UNCHANGED <<gState, ctl, impl, cr, wr, rd, srcCount, dropped>>

----------------------------------------------------------------------------
(* One writer and one reader, interleaved step by step *)

Next ==
    \/ WriteBegin \/ WAvailW \/ WAvailR \/ WLoadW \/ WCopy \/ WPublish
    \/ ReadBegin \/ RAvailW \/ RAvailR \/ RLoadR \/ RCopy \/ RAdvance
    \/ Reset

Spec == Init /\ [][Next]_vars

----------------------------------------------------------------------------
(* One caller at a time: every call runs from entry to return with no step *)
(* of the other thread in between.                                         *)

Quiescent == cr.pc = "created" /\ wr.pc = "idle" /\ rd.pc = "idle"

\* a whole write(data, frameCount)
SeqWriteOf(frameCount) ==
    /\ Quiescent
    /\ srcCount + frameCount <= MaxSrc
    /\ \E n \in {RunWrite(impl, rb,
                          WriteCall(impl, SourceBlock(srcCount, frameCount,
                                                      rb.channelCount),
                                    frameCount))} :
           /\ rb' = n.rb
           /\ wr' = n.t
           /\ accepted' = AcceptedAfter(n.t)
           /\ dropped' = DroppedAfter(n.t)
    /\ srcCount' = srcCount + frameCount
    /\ UNCHANGED <<gState, ctl, impl, cr, rd, consumed>>

\* a whole read(data, frameCount), peek(data, frameCount) or skip(frameCount)
SeqReadOf(op, frameCount) ==
    /\ Quiescent
    /\ op \in ReaderOps(impl)
    /\ \E n \in {RunRead(impl, rb,
                         ReadCall(impl, op,
                                  IF op = "skip" THEN << >>
                                  ELSE OutputBlock(frameCount, rb.channelCount),
                                  frameCount))} :
           /\ rb' = n.rb
           /\ rd' = n.t
           /\ consumed' =
                IF op = "read"
                THEN consumed \o Frames(n.t.data, 0, n.t.ret, rb.channelCount)
                ELSE consumed \o StoredFrames(impl, rb, rb.readIndex,
                                              n.rb.readIndex)
    /\ UNCHANGED <<gState, ctl, impl, cr, wr, srcCount, accepted, dropped>>

\* the same calls, told apart by the frame count and the operation the
\* caller is left with before the call is run again
WriteCallOf(frameCount) ==
    wr'.frameCount = frameCount /\ SeqWriteOf(frameCount)

ReadCallOf(op, frameCount) ==
    rd'.op = op /\ rd'.frameCount = frameCount /\ SeqReadOf(op, frameCount)

SeqWrite ==
    \E frameCount \in 0 .. MaxFrames :
        Quiescent /\ SeqWriteOf(frameCount)

SeqRead ==
    \E frameCount \in 0 .. MaxFrames :
        Quiescent /\ SeqReadOf("read", frameCount)

SeqPeek ==
    \E frameCount \in 0 .. MaxFrames :
        impl = "c" /\ SeqReadOf("peek", frameCount)

SeqSkip ==
    \E frameCount \in 0 .. MaxFrames :
        impl = "c" /\ SeqReadOf("skip", frameCount)

SeqNext == SeqWrite \/ SeqRead \/ SeqPeek \/ SeqSkip \/ Reset

SeqSpec == Init /\ [][SeqNext]_vars

----------------------------------------------------------------------------
(* AudioRingBuffer_Create and the constructor of the C++ class, step by    *)
(* step: the allocations, and one step for each pass of the rounding loop. *)

\* requested capacities: the small ones, and the ones around 2^31
CreateRequests ==
    { U32Of(n) : n \in 0 .. MaxReq + 2 }
        \cup { <<2^15 - 1, 2^16 - 1>>, <<2^15, 0>>, <<2^15, 1>>,
               <<2^16 - 1, 2^16 - 1>> }

\* the store of a buffer of this size is kept in the model
StoreModelled(size) == size[1] = 0

CreateInit ==
    /\ impl \in {"c", "hpp"}
    /\ \E request \in CreateRequests, channels \in 1 .. MaxChannels :
         cr = [ pc               |-> "start",
                bufferSizeFrames |-> request,
                powerOf2Size     |-> U32Of(0),
                channelCount     |-> channels,
                heap             |-> {},
                failed           |-> "none" ]
    /\ rb = NullBuffer
    /\ wr = IdleWriter
    /\ rd = IdleReader
    /\ srcCount = 0
    /\ accepted = << >>
    /\ consumed = << >>
    /\ dropped = {}
    /\ gState = NewPlugInState
    /\ ctl = NoClients

\* malloc(sizeof(AudioRingBuffer)), which may fail (the C++ object is the
\* caller's), then powerOf2Size = 1.  cr.heap is what the call has
\* allocated and not freed, cr.failed the allocation that gave nothing.
CreateEnter ==
    /\ cr.pc = "start"
    /\ \E ok \in BOOLEAN :
         /\ impl = "hpp" => ok
         /\ cr' = IF ok
                  THEN [cr EXCEPT !.pc = "loop", !.powerOf2Size = U32Of(1),
                                  !.heap = IF impl = "c"
                                           THEN cr.heap \cup {"descriptor"}
                                           ELSE cr.heap]
                  ELSE [cr EXCEPT !.pc = "null", !.failed = "descriptor"]
    /\ UNCHANGED <<gState, ctl, impl, rb, wr, rd, srcCount, accepted, consumed, dropped>>

\* while (powerOf2Size < bufferSizeFrames) powerOf2Size <<= 1;
CreateLoop ==
    /\ cr.pc = "loop"
    /\ U32Less(cr.powerOf2Size, cr.bufferSizeFrames)
    /\ cr' = [cr EXCEPT !.powerOf2Size = U32Shl1(cr.powerOf2Size)]
    /\ UNCHANGED <<gState, ctl, impl, rb, wr, rd, srcCount, accepted, consumed, dropped>>

\* CreateAlloc returning NULL without free(buffer) when calloc fails
CreateAllocKeepsDescriptor ==
    /\ cr.pc = "loop"
    /\ ~U32Less(cr.powerOf2Size, cr.bufferSizeFrames)
    /\ \E ok \in BOOLEAN :
         IF ok
         THEN /\ cr' = [cr EXCEPT !.pc = "created",
                                  !.heap = cr.heap \cup {"store"}]
              /\ rb' = IF StoreModelled(cr.powerOf2Size)
                       THEN NewRingBuffer(U32Int(cr.powerOf2Size),
                                          cr.channelCount)
                       ELSE rb
         ELSE /\ cr' = [cr EXCEPT !.pc = IF impl = "c" THEN "null" ELSE "threw",
                                  !.failed = "store"]
              /\ rb' = rb
    /\ UNCHANGED <<gState, ctl, impl, wr, rd, srcCount, accepted, consumed, dropped>>

\* the loop is left: bufferSize = powerOf2Size, the zeroed store is
\* allocated and both cursors are set to 0; when the allocation fails the C
\* function frees the descriptor and returns NULL, the constructor throws
CreateAlloc ==
    /\ cr.pc = "loop"
    /\ ~U32Less(cr.powerOf2Size, cr.bufferSizeFrames)
    /\ \E ok \in BOOLEAN :
         IF ok
         THEN /\ cr' = [cr EXCEPT !.pc = "created",
                                  !.heap = cr.heap \cup {"store"}]
              /\ rb' = IF StoreModelled(cr.powerOf2Size)
                       THEN NewRingBuffer(U32Int(cr.powerOf2Size),
                                          cr.channelCount)
                       ELSE rb
         ELSE /\ cr' = [cr EXCEPT !.pc = IF impl = "c" THEN "null" ELSE "threw",
                                  !.heap = cr.heap \ {"descriptor"},
                                  !.failed = "store"]
              /\ rb' = rb
    /\ UNCHANGED <<gState, ctl, impl, wr, rd, srcCount, accepted, consumed, dropped>>

CreateNext == CreateEnter \/ CreateLoop \/ CreateAlloc

CreateSpec == CreateInit /\ [][CreateNext]_vars

\* the thread that runs the constructor keeps running
FairCreateSpec == CreateSpec /\ WF_vars(CreateNext)

----------------------------------------------------------------------------
(* Properties of the two cursors and of the store under concurrency (Spec) *)

\* the slot of frame index k, as the design states it
SlotOf(k) == k % rb.bufferSize

\* the frame the store holds for frame index k
StoredFrame(k) == Frame(rb.buffer, SlotOf(k), rb.channelCount)

\* the frame indexes published and not yet consumed
Unread == rb.readIndex .. rb.writeIndex - 1

C2_ConsumedIsPrefixOfAccepted ==
    /\ Len(consumed) <= Len(accepted)
    /\ \A k \in 1 .. Len(consumed) : consumed[k] = accepted[k]
    /\ Len(consumed) = rb.readIndex
    /\ Len(accepted) = rb.writeIndex

\* a read() has delivered frames of a wrapped buffer while a write() is
\* copying
C2_Witness ==
    /\ rd.op = "read"
    /\ rd.pc = "idle"
    /\ rd.ret >= 1
    /\ wr.pc = "copy"
    /\ rb.bufferSize >= 2
    /\ Len(consumed) >= rb.bufferSize
    /\ Len(accepted) > Len(consumed)

\* C3: the write cursor is stored only after the frames are in the store:
\* in every reachable state, every frame index k with readCursor <= k <
\* writeCursor has at slot k mod capacity all channelCount samples of the
\* k-th accepted frame.
C3_PublishedFramesAreStored ==
    \A k \in Unread :
        /\ k + 1 <= Len(accepted)
        /\ StoredFrame(k) = accepted[k + 1]

\* the writer has copied its frames and not yet published them, while the
\* reader copies frames published before
C3_Witness ==
    /\ wr.pc = "publish"
    /\ wr.framesToWrite >= 1
    /\ rd.pc = "copy"
    /\ rb.writeIndex > rb.readIndex
    /\ rb.channelCount >= 2

\* the slots an in-flight write() copies into
WriterSlots ==
    IF wr.pc \in {"load_w", "copy", "publish"}
    THEN { BufferPos(impl, rb, wr.writeIdx + i) :
               i \in 0 .. wr.framesToWrite - 1 }
    ELSE {}

\* the slots an in-flight read() or peek() copies out of
ReaderSlots ==
    IF rd.pc \in {"load_r", "copy", "advance"} /\ rd.op # "skip"
    THEN { BufferPos(impl, rb, rd.readIdx + i) :
               i \in 0 .. rd.framesToRead - 1 }
    ELSE {}

\* the reader-owned region [readCursor mod C, writeCursor mod C)
PublishedSlots == { SlotOf(k) : k \in Unread }

\* C4: the slots an in-flight write() copies into are disjoint from the
\* slots an in-flight read() or peek() copies out of: the writer only
\* touches slots outside the published region, the reader only slots
\* inside it.
C4_WriterAndReaderSlotsDisjoint ==
    /\ WriterSlots \cap ReaderSlots = {}
    /\ WriterSlots \cap PublishedSlots = {}
    /\ ReaderSlots \subseteq PublishedSlots

\* both threads are copying, and together they cover the whole store
C4_Witness ==
    /\ wr.pc = "copy"
    /\ rd.pc = "copy"
    /\ WriterSlots # {}
    /\ ReaderSlots # {}
    /\ WriterSlots \cup ReaderSlots = 0 .. rb.bufferSize - 1
    /\ rb.readIndex >= 1

\* a full buffer makes write() find nothing to write, touch nothing and
\* return 0 (the driver's write() goes through its store of an unchanged
\* cursor)
FullWriteLeavesAll ==
    /\ (wr' # wr /\ wr.pc = "avail_r"
            /\ rb.writeIndex - rb.readIndex = rb.bufferSize)
         => /\ rb' = rb
            /\ IF impl = "drv"
               THEN wr'.pc = "publish" /\ wr'.framesToWrite = 0
               ELSE wr'.pc = "idle" /\ wr'.ret = 0
    /\ (wr' # wr /\ wr.pc = "publish" /\ wr.framesToWrite = 0)
         => (rb' = rb /\ wr'.pc = "idle" /\ wr'.ret = 0)

\* C5: no step of write(), read(), peek() or skip() changes a slot that
\* holds a published and not yet consumed frame, and a write() that finds
\* the buffer full returns 0 and leaves the store and both cursors
\* unchanged.
C5_WriteNeverOverwritesUnread ==
    [][ Reset \/ ( /\ \A k \in Unread :
                        Frame(rb'.buffer, SlotOf(k), rb.channelCount)
                            = StoredFrame(k)
                   /\ FullWriteLeavesAll ) ]_vars

\* the writer copies into slots that held earlier frames, next to unread
\* ones
C5_Witness ==
    /\ wr.pc = "copy"
    /\ rb.writeIndex > rb.readIndex
    /\ wr.writeIdx >= rb.bufferSize

----------------------------------------------------------------------------
(* Construction (CreateSpec) *)

\* 2^k as a uint32_t, k in 0 .. 31
U32Pow2(k) == IF k < 16 THEN <<0, 2^k>> ELSE <<2^(k - 16), 0>>

\* size is the smallest power of two that is not below request
SmallestPowerOfTwoAtLeast(size, request) ==
    \E k \in 0 .. 31 :
        /\ size = U32Pow2(k)
        /\ ~U32Less(size, request)
        /\ k = 0 \/ U32Less(U32Pow2(k - 1), request)

\* a constructed buffer has the capacity the design states
CreatedCapacityIsSmallestPowerOfTwo ==
    cr.pc = "created" =>
        /\ SmallestPowerOfTwoAtLeast(cr.powerOf2Size, cr.bufferSizeFrames)
        /\ cr.powerOf2Size # U32Of(0)

\* C6: for any requested capacity, create yields a realized capacity that
\* is the smallest power of two greater than or equal to the request, never
\* 0: the rounding loop always has its next pass or its exit ahead of it,
\* and the buffer it leads to has that capacity.
C6_CreateYieldsSmallestPowerOfTwo ==
    /\ cr.pc = "loop" => ENABLED <<CreateNext>>_vars
    /\ CreatedCapacityIsSmallestPowerOfTwo

----------------------------------------------------------------------------
(* The operations one call at a time (SeqSpec) *)

\* the samples of the reader's block, the store excepted
Samples(block) == { block[j] : j \in DOMAIN block }

\* write(data, frameCount) returns min(frameCount, free), advances only the
\* write cursor, by that count, and puts the first frames of the block, and
\* nothing else, into the slots after the old write cursor
WritePost(frameCount) ==
    LET free    == rb.bufferSize - (rb.writeIndex - rb.readIndex)
        toWrite == Min(frameCount, free)
        written == { SlotOf(rb.writeIndex + i) : i \in 0 .. toWrite - 1 }
    IN  /\ wr'.ret = toWrite
        /\ rb'.writeIndex = rb.writeIndex + toWrite
        /\ rb'.readIndex = rb.readIndex
        /\ accepted' = accepted \o Frames(wr'.data, 0, toWrite, rb.channelCount)
        /\ \A i \in 0 .. toWrite - 1 :
             Frame(rb'.buffer, SlotOf(rb.writeIndex + i), rb.channelCount)
                 = Frame(wr'.data, i, rb.channelCount)
        /\ \A slot \in (0 .. rb.bufferSize - 1) \ written :
             Frame(rb'.buffer, slot, rb.channelCount)
                 = Frame(rb.buffer, slot, rb.channelCount)
        /\ dropped' = dropped \cup
             { wr'.data[j] : j \in toWrite * rb.channelCount ..
                                   frameCount * rb.channelCount - 1 }

\* no sample of a dropped source frame is in the store or in a block that
\* read() or peek() has filled
NoDroppedSampleAppears ==
    /\ Samples(rb.buffer) \cap dropped = {}
    /\ Samples(rd.data) \cap dropped = {}

\* C7: write(data, frameCount) returns toWrite = min(frameCount,
\* freeFrames()), advances writeCursor by exactly toWrite and accepts
\* exactly the first toWrite source frames; the frames beyond are dropped
\* and their values never appear in the store or in the output of a later
\* read() or peek().
C7_WriteAcceptsFirstFramesOnly ==
    /\ [][ \A frameCount \in 0 .. MaxFrames :
             WriteCallOf(frameCount) => WritePost(frameCount) ]_vars
    /\ []NoDroppedSampleAppears

\* a write() has accepted a part of its block and dropped the rest, and a
\* read() after it has delivered frames
C7_Witness ==
    /\ Quiescent
    /\ wr.ret >= 1
    /\ wr.ret < wr.frameCount
    /\ dropped # {}
    /\ rd.op = "read"
    /\ rd.ret >= 1
    /\ rb.readIndex > rb.bufferSize

\* read(data, frameCount) returns min(frameCount, available), delivers the
\* oldest unread frames in order, silences the rest of the block and
\* advances only the read cursor, by the count returned
ReadPost(frameCount) ==
    LET available == rb.writeIndex - rb.readIndex
        toRead    == Min(frameCount, available)
    IN  /\ rd'.ret = toRead
        /\ DOMAIN rd'.data = 0 .. frameCount * rb.channelCount - 1
        /\ \A i \in 0 .. toRead - 1 :
             Frame(rd'.data, i, rb.channelCount) = accepted[rb.readIndex + i + 1]
        /\ \A j \in toRead * rb.channelCount ..
                    frameCount * rb.channelCount - 1 : rd'.data[j] = 0
        /\ rb'.readIndex = rb.readIndex + toRead
        /\ rb'.writeIndex = rb.writeIndex
        /\ rb'.buffer = rb.buffer

\* C8: read(data, frameCount) with frameCount >= 1 returns toRead =
\* min(frameCount, availableFrames()), puts the toRead oldest unread frames
\* in order into the first toRead output frames, sets every sample of the
\* remaining frameCount - toRead output frames to zero (the whole output
\* when toRead = 0) and advances readCursor by exactly toRead.
C8_ReadDeliversOldestThenSilence ==
    [][ \A frameCount \in 1 .. MaxFrames :
          ReadCallOf("read", frameCount) => ReadPost(frameCount) ]_vars

\* a read() has returned fewer frames than asked for, from a wrapped buffer
C8_Witness ==
    /\ Quiescent
    /\ rd.op = "read"
    /\ rd.ret >= 1
    /\ rd.ret < rd.frameCount
    /\ rb.channelCount >= 2
    /\ rb.readIndex > rb.bufferSize

\* no frame index has passed the end of the store since construction or the
\* last reset
NoWraparound == rb.writeIndex <= rb.bufferSize

\* C9: as long as the frames written do not exceed the capacity (no
\* wraparound), the store holds sample c of the i-th written frame at index
\* i*channelCount + c, and each read() returns exactly the written samples
\* that are next, in the order written, for every channel count.
C9_NoWrapReadReturnsWritten ==
    /\ [](NoWraparound =>
             \A i \in 0 .. rb.writeIndex - 1, c \in 0 .. rb.channelCount - 1 :
                 rb.buffer[i * rb.channelCount + c] = accepted[i + 1][c])
    /\ [][ \A frameCount \in 1 .. MaxFrames :
             (NoWraparound /\ ReadCallOf("read", frameCount)) =>
                 /\ rd'.ret = Min(frameCount, rb.writeIndex - rb.readIndex)
                 /\ \A i \in 0 .. rd'.ret - 1, c \in 0 .. rb.channelCount - 1 :
                      /\ rd'.data[i * rb.channelCount + c]
                           = rb.buffer[(rb.readIndex + i) * rb.channelCount + c]
                      /\ rd'.data[i * rb.channelCount + c]
                           = accepted[rb.readIndex + i + 1][c] ]_vars

\* a second read() of an unwrapped two-channel buffer has returned two
\* frames
C9_Witness ==
    /\ Quiescent
    /\ NoWraparound
    /\ rb.channelCount >= 2
    /\ rd.op = "read"
    /\ rd.ret >= 2
    /\ rb.readIndex > rd.ret

\* the unread frames are exactly the frames of the last write(), which
\* accepted all W of them
HoldsLastWrite(W) ==
    /\ wr.frameCount = W
    /\ wr.ret = W
    /\ rb.writeIndex - rb.readIndex = W

\* C10: round trip: a write() of W frames, 1 <= W <= capacity, on an empty
\* buffer returns W, and a read() of W frames while the unread frames are
\* the W frames of that write() returns W and an output equal to the
\* written block, at any offset of the cursors modulo the capacity.
C10_RoundTrip ==
    [][ \A W \in 1 .. MaxFrames :
          /\ (WriteCallOf(W) /\ rb.writeIndex = rb.readIndex
                             /\ W <= rb.bufferSize)
               => (wr'.ret = W /\ HoldsLastWrite(W)')
          /\ (ReadCallOf("read", W) /\ HoldsLastWrite(W))
               => (rd'.ret = W /\ rd'.data = wr.data) ]_vars

\* a block of two frames that spans the end of the store has come back
C10_Witness ==
    /\ Quiescent
    /\ rd.op = "read"
    /\ rd.ret = rd.frameCount
    /\ rd.ret >= 2
    /\ wr.ret = rd.ret
    /\ rd.data = wr.data
    /\ rb.readIndex = rb.writeIndex
    /\ SlotOf(rb.readIndex - rd.ret) = rb.bufferSize - 1

\* the frame indexes have passed the end of the store
Wrapped == rb.writeIndex > rb.bufferSize

\* C11: wraparound: once the cursors are larger than the capacity, a read()
\* still returns min(frameCount, available) frames that are exactly the
\* accepted frames at the read cursor, in order, and when it takes all the
\* unread frames they are the most recently accepted ones, also when the
\* write or the read spans the end of the store.
C11_WraparoundReadReturnsUnread ==
    [][ \A frameCount \in 1 .. MaxFrames :
          (Wrapped /\ ReadCallOf("read", frameCount)) =>
              LET K == Min(frameCount, rb.writeIndex - rb.readIndex)
              IN  /\ K <= rb.bufferSize
                  /\ rd'.ret = K
                  /\ \A i \in 0 .. K - 1 :
                       Frame(rd'.data, i, rb.channelCount)
                           = accepted[rb.readIndex + i + 1]
                  /\ K = rb.writeIndex - rb.readIndex
                       => rb.readIndex + K = Len(accepted) ]_vars

\* a write() of two frames put one in the last slot and one in the first,
\* and a read() of two frames has taken both from there
C11_Witness ==
    /\ Quiescent
    /\ rb.bufferSize >= 2
    /\ rb.readIndex > rb.bufferSize
    /\ wr.ret >= 2
    /\ rd.op = "read"
    /\ rd.ret = wr.ret
    /\ rb.readIndex = rb.writeIndex
    /\ SlotOf(rb.readIndex - rd.ret) = rb.bufferSize - 1
    /\ \A i \in 0 .. rd.ret - 1 :
         Frame(rd.data, i, rb.channelCount)
             = accepted[Len(accepted) - rd.ret + i + 1]

\* nothing has been accepted since construction or the last reset
NothingWritten == accepted = << >>

\* C12: reset(), run from any quiescent state, sets both cursors to 0 and
\* every store sample to zero, so that availableFrames() is 0 and
\* freeFrames() is the capacity; a read() after it with nothing written in
\* between returns 0 and an output that is all zero.
C12_ResetClearsBuffer ==
    [][ /\ Reset =>
             /\ rb'.writeIndex = 0
             /\ rb'.readIndex = 0
             /\ DOMAIN rb'.buffer = DOMAIN rb.buffer
             /\ \A j \in DOMAIN rb'.buffer : rb'.buffer[j] = 0
             /\ rb'.bufferSize = rb.bufferSize
             /\ AvailableFrames(rb') = 0
             /\ FreeFrames(rb') = rb.bufferSize
        /\ \A frameCount \in 0 .. MaxFrames :
             (NothingWritten /\ ReadCallOf("read", frameCount)) =>
                 /\ rd'.ret = 0
                 /\ DOMAIN rd'.data = 0 .. frameCount * rb.channelCount - 1
                 /\ \A j \in DOMAIN rd'.data : rd'.data[j] = 0
                 /\ rb' = rb ]_vars

\* frames were written and read, the buffer was reset, and a read() of it
\* has returned 0 and silence
C12_Witness ==
    /\ Quiescent
    /\ srcCount >= 2
    /\ wr.ret >= 1
    /\ NothingWritten
    /\ rb = ResetBuffer(rb)
    /\ rd.op = "read"
    /\ rd.frameCount >= 2
    /\ rd.ret = 0
    /\ \A j \in DOMAIN rd.data : rd.data[j] = 0

----------------------------------------------------------------------------
(* The scenario of the design, run step by step on the C functions and the *)
(* C++ class: create(100, 2), write 128, read 64, write 80, read 100.      *)

\* frameCount source frames from frame number first on, frame i = [i, -i]
ScenarioBlock(first, frameCount) ==
    [j \in 0 .. frameCount * 2 - 1 |->
        IF j % 2 = 0 THEN first + j \div 2 ELSE 0 - (first + j \div 2)]

\* AudioRingBuffer_Create(100, 2) has returned the object
ScenarioInit ==
    /\ impl \in {"c", "hpp"}
    /\ LET size == RealizedSize(impl, 100)
       IN  /\ cr = CreatedRecord(100, size, 2)
           /\ rb = NewRingBuffer(size, 2)
    /\ wr = IdleWriter
    /\ rd = IdleReader
    /\ srcCount = 0
    /\ accepted = << >>
    /\ consumed = << >>
    /\ dropped = {}
    /\ gState = NewPlugInState
    /\ ctl = NoClients

\* write(frames 0 .. 127, 128)
ScenarioWrite128 ==
    /\ Quiescent
    /\ srcCount = 0
    /\ wr' = WriteCall(impl, ScenarioBlock(0, 128), 128)
    /\ srcCount' = 128
    /\ UNCHANGED <<gState, ctl, impl, cr, rb, rd, accepted, consumed, dropped>>

\* read(data, 64), after the first write
ScenarioRead64 ==
    /\ Quiescent
    /\ srcCount = 128
    /\ rd.op = "none"
    /\ rd' = ReadCall(impl, "read", OutputBlock(64, 2), 64)
    /\ UNCHANGED <<gState, ctl, impl, cr, rb, wr, srcCount, accepted, consumed, dropped>>

\* write(frames 128 .. 207, 80), after the first read
ScenarioWrite80 ==
    /\ Quiescent
    /\ srcCount = 128
    /\ rd.op = "read"
    /\ wr' = WriteCall(impl, ScenarioBlock(128, 80), 80)
    /\ srcCount' = 208
    /\ UNCHANGED <<gState, ctl, impl, cr, rb, rd, accepted, consumed, dropped>>

\* read(data, 100), after the second write
ScenarioRead100 ==
    /\ Quiescent
    /\ srcCount = 208
    /\ rd.frameCount = 64
    /\ rd' = ReadCall(impl, "read", OutputBlock(100, 2), 100)
    /\ UNCHANGED <<gState, ctl, impl, cr, rb, wr, srcCount, accepted, consumed, dropped>>

ScenarioNext ==
    \/ ScenarioWrite128 \/ ScenarioRead64 \/ ScenarioWrite80 \/ ScenarioRead100
    \/ WAvailW \/ WAvailR \/ WLoadW \/ WCopy \/ WPublish
    \/ RAvailW \/ RAvailR \/ RLoadR \/ RCopy \/ RAdvance

ScenarioSpec == ScenarioInit /\ [][ScenarioNext]_vars

\* source frame i of the scenario
ScenarioFrame(i) == [c \in 0 .. 1 |-> IF c = 0 THEN i ELSE 0 - i]

\* the call with this frame count has returned
WriteReturned(frameCount) == wr.pc = "idle" /\ wr.frameCount = frameCount
ReadReturned(frameCount) == rd.pc = "idle" /\ rd.frameCount = frameCount

\* the scenario up to and with its second write: capacity 128, write 128
\* returns 128, read 64 returns frames 0 .. 63 and leaves 64 available and
\* 64 free, write 80 returns 64 and discards source frames 192 .. 207
ScenarioUpToSecondWrite ==
    /\ rb.bufferSize = 128
    /\ cr.powerOf2Size = U32Of(128)
    /\ WriteReturned(128) => wr.ret = 128
    /\ ReadReturned(64) =>
         /\ rd.ret = 64
         /\ \A i \in 0 .. 63 : Frame(rd.data, i, 2) = ScenarioFrame(i)
    /\ (ReadReturned(64) /\ WriteReturned(128)) =>
         /\ AvailableFrames(rb) = 64
         /\ FreeFrames(rb) = 64
    /\ WriteReturned(80) =>
         /\ wr.ret = 64
         /\ Len(accepted) = 192
         /\ \A i \in 0 .. 191 : accepted[i + 1] = ScenarioFrame(i)
         /\ dropped = UNION { {i, 0 - i} : i \in 192 .. 207 }

\* the last read as the design tells it: 64 frames, then 36 of silence
ScenarioLastReadReturns64 ==
    ReadReturned(100) =>
        /\ rd.ret = 64
        /\ \A i \in 0 .. 63 : Frame(rd.data, i, 2) = ScenarioFrame(64 + i)
        /\ \A j \in 64 * 2 .. 100 * 2 - 1 : rd.data[j] = 0

\* the last read as the code runs it: the second write has filled the
\* buffer, so 100 of the 128 unread frames are returned and none is silence
ScenarioLastReadReturns100 ==
    ReadReturned(100) =>
        /\ rd.ret = 100
        /\ \A i \in 0 .. 99 : Frame(rd.data, i, 2) = ScenarioFrame(64 + i)
        /\ AvailableFrames(rb) = 28

\* C13 as stated: create(100, 2) gives capacity 128; writing 128 distinct
\* frames returns 128; reading 64 returns frames 0..63 and leaves 64
\* available; writing 80 more returns 64 and discards the last 16; reading
\* 100 then returns 64: old frames 64..127 followed by 36 all-zero frames.
C13_ScenarioAsStated ==
    ScenarioUpToSecondWrite /\ ScenarioLastReadReturns64

\* C13 amended: the same scenario, but reading 100 then returns 100: old
\* frames 64..127 followed by the first 36 frames of the second write
\* (frames 128..163), with no silence, and 28 frames stay available.
C13_ScenarioAsImplemented ==
    ScenarioUpToSecondWrite /\ ScenarioLastReadReturns100

\* the last read of the scenario has returned
C13_Witness ==
    /\ ReadReturned(100)
    /\ WriteReturned(80)
    /\ srcCount = 208
    /\ rb.writeIndex = 192
    /\ rb.readIndex = 164

----------------------------------------------------------------------------
(* peek() and skip() of the C functions, one call at a time (SeqSpec) *)

\* what read(data, frameCount) would return and deliver on the object b
ReadWouldGive(b, frameCount) ==
    RunRead(impl, b, ReadCall(impl, "read",
                              OutputBlock(frameCount, b.channelCount),
                              frameCount)).t

\* C14: peek(data, frameCount) returns min(frameCount, availableFrames()),
\* copies that many oldest unread frames in order into the output exactly as
\* read() would, leaves both cursors and the store unchanged and does not
\* silence-fill: the output samples beyond the returned frames keep their
\* previous contents (all of them, with 0 returned, on an empty buffer).
C14_PeekCopiesWithoutConsuming ==
    [][ \A frameCount \in 0 .. MaxFrames :
          ReadCallOf("peek", frameCount) =>
              LET K      == Min(frameCount, rb.writeIndex - rb.readIndex)
                  before == OutputBlock(frameCount, rb.channelCount)
                  asRead == ReadWouldGive(rb, frameCount)
              IN  /\ rd'.ret = K
                  /\ rd'.ret = asRead.ret
                  /\ rb' = rb
                  /\ consumed' = consumed
                  /\ DOMAIN rd'.data = DOMAIN before
                  /\ \A i \in 0 .. K - 1 :
                       /\ Frame(rd'.data, i, rb.channelCount)
                            = accepted[rb.readIndex + i + 1]
                       /\ Frame(rd'.data, i, rb.channelCount)
                            = Frame(asRead.data, i, rb.channelCount)
                  /\ \A j \in K * rb.channelCount ..
                              frameCount * rb.channelCount - 1 :
                       rd'.data[j] = before[j] ]_vars

\* a peek() of two frames on a wrapped two-channel buffer with one unread
\* frame has copied that frame and left the second output frame as it was
C14_Witness ==
    /\ Quiescent
    /\ rd.op = "peek"
    /\ rd.frameCount = 2
    /\ rd.ret = 1
    /\ rb.channelCount = 2
    /\ rb.writeIndex - rb.readIndex = 1
    /\ rb.readIndex >= rb.bufferSize
    /\ Frame(rd.data, 0, 2) = accepted[rb.readIndex + 1]
    /\ Frame(rd.data, 1, 2) = Frame(OutputBlock(2, 2), 1, 2)

\* C15: skip(frameCount) advances readCursor by exactly min(frameCount,
\* availableFrames()) and changes nothing else: writeCursor and every store
\* sample are unchanged, and the frames after the skipped ones are the next
\* ones read() delivers.
C15_SkipAdvancesReadCursorOnly ==
    [][ /\ \A frameCount \in 0 .. MaxFrames :
             ReadCallOf("skip", frameCount) =>
                 LET K == Min(frameCount, rb.writeIndex - rb.readIndex)
                 IN  /\ rb' = [rb EXCEPT !.readIndex = rb.readIndex + K]
                     /\ Len(consumed') = Len(consumed) + K
                     /\ \A i \in 1 .. K :
                          consumed'[Len(consumed) + i]
                              = accepted[rb.readIndex + i]
                     /\ \E next \in {ReadWouldGive(rb', MaxFrames)} :
                          \A i \in 0 .. next.ret - 1 :
                              Frame(next.data, i, rb.channelCount)
                                  = accepted[rb.readIndex + K + i + 1]
        /\ \A frameCount \in 1 .. MaxFrames :
             (rd.op = "skip" /\ ReadCallOf("read", frameCount)) =>
                 \A i \in 0 .. rd'.ret - 1 :
                     Frame(rd'.data, i, rb.channelCount)
                         = accepted[rb.readIndex + i + 1] ]_vars

\* the last call of the reader was a skip(2), the frames up to the read
\* cursor were passed and a frame written before the skip is still unread
C15_Witness ==
    /\ Quiescent
    /\ rd.op = "skip"
    /\ rd.frameCount = 2
    /\ rb.readIndex >= 2
    /\ Len(consumed) = rb.readIndex
    /\ rb.writeIndex > rb.readIndex
    /\ rb.writeIndex > rb.bufferSize

----------------------------------------------------------------------------
(* Progress and readiness under concurrency (Spec) *)

\* an upper bound of the steps a write() has left, from its locals alone
WriterStepsLeft(w) ==
    CASE w.pc = "idle"    -> 0
      [] w.pc = "avail_w" -> w.frameCount + 4
      [] w.pc = "avail_r" -> w.frameCount + 3
      [] w.pc = "load_w"  -> w.framesToWrite + 2
      [] w.pc = "copy"    -> (w.framesToWrite - w.i) + 1
      [] w.pc = "publish" -> 1

\* an upper bound of the steps a read(), peek() or skip() has left
ReaderStepsLeft(r) ==
    CASE r.pc = "idle"    -> 0
      [] r.pc = "avail_w" -> r.frameCount + 4
      [] r.pc = "avail_r" -> r.frameCount + 3
      [] r.pc = "load_r"  -> r.framesToRead + 2
      [] r.pc = "copy"    -> (r.framesToRead - r.i) + 1
      [] r.pc = "advance" -> 1

\* C16: neither write() nor read() ever waits on the other thread: a call
\* in flight can always take its next step, wherever the other thread
\* stands and whether the buffer is full, empty or in between, and every
\* step of a call lowers a count of steps left that starts at frameCount + 4
\* and depends on the call's own locals only.
C16_CallsNeverWait ==
    /\ [](wr.pc # "idle" => ENABLED WriterMoves)
    /\ [](rd.pc # "idle" => ENABLED ReaderMoves)
    /\ [][ /\ (wr' # wr /\ wr.pc # "idle")
                => WriterStepsLeft(wr') < WriterStepsLeft(wr)
           /\ (wr' # wr /\ wr.pc = "idle")
                => WriterStepsLeft(wr') <= wr'.frameCount + 4
           /\ (rd' # rd /\ rd.pc # "idle")
                => ReaderStepsLeft(rd') < ReaderStepsLeft(rd)
           /\ (rd' # rd /\ rd.pc = "idle")
                => ReaderStepsLeft(rd') <= rd'.frameCount + 4 ]_vars

\* a write() that found the buffer full has returned while the reader stands
\* in its copy loop, and the reader can go on
C16_Witness ==
    /\ wr.pc = "idle"
    /\ wr.frameCount >= 1
    /\ wr.ret = 0
    /\ rd.pc = "copy"
    /\ rd.i >= 1
    /\ rb.writeIndex - rb.readIndex = rb.bufferSize
    /\ ENABLED ReaderMoves

\* the count availableFrames() has returned to the reader in flight
ReaderCount == Avail32(rd.writeIdx, rd.readIdx)

\* the frame indexes whose frames are in the store in full, published and
\* not yet consumed
ReadyFrames ==
    { k \in Unread : k + 1 <= Len(accepted) /\ StoredFrame(k) = accepted[k + 1] }

\* C17: the count availableFrames() returns to the reader never overstates
\* readiness: whatever a concurrent write() does, it is at most the number
\* of frames in the store in full, published and not yet consumed, so every
\* frame read() copies out is a frame that was written in full.
C17_AvailableNeverOverstates ==
    /\ [](rd.pc = "avail_r" => rd.writeIdx <= rb.writeIndex)
    /\ [](rd.pc \in {"load_r", "copy", "advance"} =>
             /\ ReaderCount >= 0
             /\ ReaderCount <= Cardinality(ReadyFrames)
             /\ rd.framesToRead <= ReaderCount)
    /\ [][ (rd.pc = "copy" /\ rd' # rd) =>
               Frame(rd'.data, rd.i, rb.channelCount)
                   = accepted[rd.readIdx + rd.i + 1] ]_vars

\* the reader copies with the count it obtained while the writer has put a
\* further frame into the store and not yet published it
C17_Witness ==
    /\ rd.pc = "copy"
    /\ rd.op = "read"
    /\ ReaderCount >= 1
    /\ ReaderCount = Cardinality(ReadyFrames)
    /\ wr.pc \in {"copy", "publish"}
    /\ wr.i >= 1
    /\ rb.writeIndex >= rb.bufferSize

----------------------------------------------------------------------------
(* One writer and one reader, interleaved at every single sample copy: in  *)
(* the copy loops the local i counts samples, frame i \div channelCount    *)
(* and channel i % channelCount.                                           *)

\* WriteCopySample storing the cursor as soon as the first sample of a
\* frame is in the store
WriteCopySamplePublishing(im, b, w) ==
    LET frame     == w.i \div b.channelCount
        ch        == w.i % b.channelCount
        bufferPos == BufferPos(im, b, w.writeIdx + frame)
    IN  Out([b EXCEPT !.buffer[bufferPos * b.channelCount + ch] = w.data[w.i],
                      !.writeIndex = IF ch = 0 THEN w.writeIdx + frame + 1
                                     ELSE b.writeIndex],
            [w EXCEPT !.i  = w.i + 1,
                      !.pc = IF w.i + 1 < w.framesToWrite * b.channelCount
                             THEN "copy" ELSE "publish"])

\* buffer->buffer[bufferOffset + ch] = data[dataOffset + ch], one sample
WriteCopySample(im, b, w) ==
    LET frame     == w.i \div b.channelCount
        ch        == w.i % b.channelCount
        bufferPos == BufferPos(im, b, w.writeIdx + frame)
    IN  Out([b EXCEPT !.buffer[bufferPos * b.channelCount + ch] = w.data[w.i]],
            [w EXCEPT !.i  = w.i + 1,
                      !.pc = IF w.i + 1 < w.framesToWrite * b.channelCount
                             THEN "copy" ELSE "publish"])

\* data[dataOffset + ch] = buffer->buffer[bufferOffset + ch], one sample;
\* peek() returns after its last one
ReadCopySample(im, b, r) ==
    LET frame     == r.i \div b.channelCount
        ch        == r.i % b.channelCount
        bufferPos == BufferPos(im, b, r.readIdx + frame)
        data      == [r.data EXCEPT
                         ![r.i] = b.buffer[bufferPos * b.channelCount + ch]]
    IN  IF r.i + 1 < r.framesToRead * b.channelCount
        THEN Out(b, [r EXCEPT !.data = data, !.i = r.i + 1])
        ELSE IF r.op = "peek"
        THEN Out(b, ReadReturn(r, data, r.framesToRead))
        ELSE Out(b, [r EXCEPT !.data = data, !.i = r.i + 1,
                              !.pc = "advance"])

WriteSampleStep(im, b, w) ==
    IF w.pc = "copy" THEN WriteCopySample(im, b, w) ELSE WriteStep(im, b, w)

ReadSampleStep(im, b, r) ==
    IF r.pc = "copy" THEN ReadCopySample(im, b, r) ELSE ReadStep(im, b, r)

\* the writer takes its next step, one sample at a time in the copy loop
WriterSampleMoves ==
    /\ wr.pc # "idle"
    /\ \E n \in {WriteSampleStep(impl, rb, wr)} :
           /\ rb' = n.rb
           /\ wr' = n.t
           /\ accepted' = AcceptedAfter(n.t)
           /\ dropped' = DroppedAfter(n.t)
    /\ UNCHANGED <<gState, ctl, impl, cr, rd, srcCount, consumed>>

\* the reader takes its next step, one sample at a time in the copy loop
ReaderSampleMoves ==
    /\ rd.pc # "idle"
    /\ \E n \in {ReadSampleStep(impl, rb, rd)} :
           /\ rb' = n.rb
           /\ rd' = n.t
           /\ consumed' = ConsumedAfter(rd, n.t)
    /\ UNCHANGED <<gState, ctl, impl, cr, wr, srcCount, accepted, dropped>>

SampleNext ==
    WriteBegin \/ WriterSampleMoves \/ ReadBegin \/ ReaderSampleMoves \/ Reset

SampleSpec == Init /\ [][SampleNext]_vars

\* C18: frames are transferred as whole units: with one writer and one
\* reader interleaved at every single sample copy, every frame a returning
\* read() or peek() has delivered consists of the channelCount samples of
\* one accepted frame, the one of its frame index, never of samples of two
\* written frames or of a written frame and stale or zero store content.
C18_FramesAreWhole ==
    [][ (rd.pc # "idle" /\ rd'.pc = "idle" /\ rd'.op \in {"read", "peek"}) =>
            \A i \in 0 .. rd'.ret - 1 :
                /\ rd.readIdx + i + 1 <= Len(accepted)
                /\ Frame(rd'.data, i, rb.channelCount)
                       = accepted[rd.readIdx + i + 1] ]_vars

\* the reader is between the two samples of a frame while the writer is
\* between the two samples of another, in a buffer that has wrapped
C18_Witness ==
    /\ rb.channelCount = 2
    /\ rd.pc = "copy"
    /\ rd.i % 2 = 1
    /\ wr.pc = "copy"
    /\ wr.i % 2 = 1
    /\ wr.writeIdx >= rb.bufferSize

----------------------------------------------------------------------------
(* Accounting and the cursors *)

\* C19: in any quiescent state availableFrames() equals writeCursor -
\* readCursor, freeFrames() equals capacity - availableFrames(), so that
\* availableFrames() + freeFrames() equals the capacity and both lie in
\* 0 .. capacity.
C19_QuiescentAccounting ==
    Quiescent =>
        /\ AvailableFrames(rb) = rb.writeIndex - rb.readIndex
        /\ FreeFrames(rb) = rb.bufferSize - AvailableFrames(rb)
        /\ AvailableFrames(rb) + FreeFrames(rb) = rb.bufferSize
        /\ AvailableFrames(rb) \in 0 .. rb.bufferSize
        /\ FreeFrames(rb) \in 0 .. rb.bufferSize

\* a wrapped buffer at rest that is neither empty nor full
C19_Witness ==
    /\ Quiescent
    /\ AvailableFrames(rb) >= 1
    /\ FreeFrames(rb) >= 1
    /\ rb.readIndex >= rb.bufferSize

\* a pass of the writer's copy loop touches the slot of its frame index
\* modulo the capacity and no other, a pass of the reader's takes its frame
\* from there
StoreAddressedModuloCapacity ==
    /\ (wr.pc = "copy" /\ wr' # wr) =>
         /\ Frame(rb'.buffer, SlotOf(wr.writeIdx + wr.i), rb.channelCount)
                = Frame(wr.data, wr.i, rb.channelCount)
         /\ \A slot \in (0 .. rb.bufferSize - 1) \ {SlotOf(wr.writeIdx + wr.i)} :
                Frame(rb'.buffer, slot, rb.channelCount)
                    = Frame(rb.buffer, slot, rb.channelCount)
         /\ DOMAIN rb'.buffer = DOMAIN rb.buffer
    /\ (rd.pc = "copy" /\ rd' # rd) =>
         Frame(rd'.data, rd.i, rb.channelCount) = StoredFrame(rd.readIdx + rd.i)

\* C20: both cursors are monotonically non-decreasing: no step of write(),
\* read(), peek() or skip() lowers writeCursor or readCursor, only reset()
\* sets a cursor to a smaller value, and only the cursor modulo the capacity
\* addresses the store.
C20_CursorsNeverDecrease ==
    [][ /\ Reset \/ ( /\ rb'.writeIndex >= rb.writeIndex
                      /\ rb'.readIndex >= rb.readIndex )
        /\ StoreAddressedModuloCapacity ]_vars

\* the writer copies at a frame index beyond the capacity, and the read
\* cursor is beyond the capacity too
C20_Witness ==
    /\ wr.pc = "copy"
    /\ wr.writeIdx + wr.i > rb.bufferSize
    /\ rb.readIndex > rb.bufferSize
    /\ rb.bufferSize >= 2
    /\ rd.pc = "idle"

----------------------------------------------------------------------------
(* The buffer after construction, its two logical states, and calls with   *)
(* frameCount = 0 (SeqSpec)                                                *)

\* no frame has been offered to write() since construction
NeverWritten == srcCount = 0

\* C21: a successful create yields a buffer with both cursors 0 and every
\* one of its capacity*channelCount samples zero, so that availableFrames()
\* is 0 and freeFrames() is the capacity, and a read() issued before any
\* write() returns 0 with an all-zero output.
C21_CreatedBufferIsEmptyAndZero ==
    /\ [](NeverWritten =>
             /\ rb.writeIndex = 0
             /\ rb.readIndex = 0
             /\ rb.bufferSize = U32Int(cr.powerOf2Size)
             /\ rb.channelCount = cr.channelCount
             /\ DOMAIN rb.buffer = 0 .. rb.bufferSize * rb.channelCount - 1
             /\ \A j \in DOMAIN rb.buffer : rb.buffer[j] = 0
             /\ AvailableFrames(rb) = 0
             /\ FreeFrames(rb) = rb.bufferSize)
    /\ [][ \A frameCount \in 0 .. MaxFrames :
             (NeverWritten /\ ReadCallOf("read", frameCount)) =>
                 /\ rd'.ret = 0
                 /\ DOMAIN rd'.data = 0 .. frameCount * rb.channelCount - 1
                 /\ \A j \in DOMAIN rd'.data : rd'.data[j] = 0 ]_vars

\* a read() of two frames of a two-channel buffer that was never written
\* has returned 0 and silence
C21_Witness ==
    /\ Quiescent
    /\ NeverWritten
    /\ rb.channelCount = 2
    /\ rb.bufferSize >= 2
    /\ rd.op = "read"
    /\ rd.frameCount = 2
    /\ rd.ret = 0
    /\ \A j \in 0 .. 3 : rd.data[j] = 0

\* the two logical states of the buffer
Idle == rb.writeIndex = rb.readIndex
Streaming == rb.writeIndex # rb.readIndex

\* C23: the buffer is Idle exactly when the cursors are equal and Streaming
\* when they differ: reset() from any state leads to Idle, and a write()
\* with frameCount >= 1 on an Idle buffer accepts min(frameCount, capacity)
\* >= 1 frames and so leads to Streaming.
C23_ResetIdlesFirstWriteStreams ==
    [][ /\ Reset => Idle'
        /\ \A frameCount \in 1 .. MaxFrames :
             (Idle /\ WriteCallOf(frameCount)) =>
                 /\ wr'.ret = Min(frameCount, rb.bufferSize)
                 /\ wr'.ret >= 1
                 /\ rb'.writeIndex - rb'.readIndex = wr'.ret
                 /\ Streaming' ]_vars

\* frames were accepted, the buffer was reset, and the first write() after
\* that has accepted two frames
C23_Witness ==
    /\ Quiescent
    /\ Streaming
    /\ srcCount = 4
    /\ dropped = {}
    /\ wr.ret = 2
    /\ rb.readIndex = 0
    /\ rb.writeIndex = 2
    /\ Len(accepted) = 2

\* what write(data, 0) returns and leaves, data a block of one frame
WriteOfNoFrames ==
    RunWrite(impl, rb, WriteCall(impl, SourceBlock(srcCount, 1, rb.channelCount), 0))

\* what read(data, 0), peek(data, 0) or skip(0) returns and leaves, data a
\* block of one frame
ReadOfNoFrames(op) ==
    RunRead(impl, rb, ReadCall(impl, op, OutputBlock(1, rb.channelCount), 0))

\* C25: an operation called with frameCount = 0 is a no-op returning 0:
\* write(data, 0), read(data, 0) and peek(data, 0) return 0, skip(0)
\* returns, and in each case both cursors, the store and the caller's
\* output block are unchanged.
C25_ZeroFrameCountIsNoOp ==
    /\ [](Quiescent =>
             /\ WriteOfNoFrames.rb = rb
             /\ WriteOfNoFrames.t.ret = 0
             /\ \A op \in ReaderOps(impl) :
                  /\ ReadOfNoFrames(op).rb = rb
                  /\ ReadOfNoFrames(op).t.ret = 0
                  /\ ReadOfNoFrames(op).t.data = OutputBlock(1, rb.channelCount))
    /\ [][ /\ WriteCallOf(0) =>
                (wr'.ret = 0 /\ rb' = rb /\ accepted' = accepted)
           /\ \A op \in ReaderOps(impl) :
                ReadCallOf(op, 0) =>
                    (rd'.ret = 0 /\ rb' = rb /\ consumed' = consumed) ]_vars

\* calls with frameCount = 0 were the last ones of both threads, on a
\* wrapped buffer that holds unread frames and has free slots
C25_Witness ==
    /\ Quiescent
    /\ wr.frameCount = 0
    /\ wr.ret = 0
    /\ rd.op = "read"
    /\ rd.frameCount = 0
    /\ rd.ret = 0
    /\ rb.readIndex >= rb.bufferSize
    /\ AvailableFrames(rb) >= 1
    /\ FreeFrames(rb) >= 1

----------------------------------------------------------------------------
(* Failure of the construction (CreateSpec) *)

\* the construction has ended without an object
CreateFailed == cr.pc \in {"null", "threw"}

\* C22: creation fails only with an allocation failure and produces no
\* partial object: when the store cannot be allocated the C function frees
\* the descriptor it has allocated and returns NULL, when the descriptor
\* cannot be allocated it returns NULL without allocating a store, and in
\* both cases nothing remains allocated.
C22_FailedCreateLeavesNothing ==
    /\ [](CreateFailed <=> cr.failed # "none")
    /\ [](CreateFailed =>
             /\ cr.heap = {}
             /\ rb = NullBuffer
             /\ ~ENABLED <<CreateNext>>_vars)
    /\ [](cr.pc = "created" => cr.heap = CreatedHeap(impl))
    /\ [][ /\ cr'.failed = "descriptor" => (cr.pc = "start" /\ cr'.pc = "null")
           /\ cr'.failed = "store" =>
                /\ cr.pc = "loop"
                /\ ~U32Less(cr.powerOf2Size, cr.bufferSizeFrames)
                /\ impl = "c" => (cr.heap = {"descriptor"} /\ cr'.pc = "null")
           /\ "store" \in cr'.heap =>
                (cr.failed = "none" /\ cr'.pc = "created") ]_vars

\* AudioRingBuffer_Create(3, ..) has rounded to 4, could not allocate the
\* store and has returned NULL
C22_Witness ==
    /\ impl = "c"
    /\ cr.pc = "null"
    /\ cr.failed = "store"
    /\ cr.bufferSizeFrames = U32Of(3)
    /\ cr.powerOf2Size = U32Of(4)
    /\ cr.heap = {}

----------------------------------------------------------------------------
(* The three implementations side by side: each is constructed with the    *)
(* same arguments and is given the same calls; rb, wr, rd and cr hold one  *)
(* object, one writer, one reader and one construction record for each.    *)

EquivInit ==
    /\ impl = "all"
    /\ \E frames \in 1 .. MaxReq, channels \in 1 .. MaxChannels :
         /\ cr = [im \in Impls |->
                    [CreatedRecord(frames, RealizedSize(im, frames), channels)
                        EXCEPT !.heap = CreatedHeap(im)]]
         /\ rb = [im \in Impls |->
                    NewRingBuffer(RealizedSize(im, frames), channels)]
    /\ wr = [im \in Impls |-> IdleWriter]
    /\ rd = [im \in Impls |-> IdleReader]
    /\ srcCount = 0
    /\ accepted = << >>
    /\ consumed = << >>
    /\ dropped = {}
    /\ gState = NewPlugInState
    /\ ctl = NoClients

\* the channel count the three were constructed with
EquivChannels == cr["c"].channelCount

\* write(data, frameCount) on each of the three
EquivWrite ==
    /\ \E frameCount \in 0 .. MaxFrames :
         /\ srcCount + frameCount <= MaxSrc
         /\ \E n \in {[im \in Impls |->
                        RunWrite(im, rb[im],
                                 WriteCall(im, SourceBlock(srcCount, frameCount,
                                                           EquivChannels),
                                           frameCount))]} :
                /\ rb' = [im \in Impls |-> n[im].rb]
                /\ wr' = [im \in Impls |-> n[im].t]
         /\ srcCount' = srcCount + frameCount
    /\ UNCHANGED <<gState, ctl, impl, cr, rd, accepted, consumed, dropped>>

\* read(data, frameCount) on each of the three
EquivRead ==
    /\ \E frameCount \in 0 .. MaxFrames :
         \E n \in {[im \in Impls |->
                     RunRead(im, rb[im],
                             ReadCall(im, "read",
                                      OutputBlock(frameCount, EquivChannels),
                                      frameCount))]} :
             /\ rb' = [im \in Impls |-> n[im].rb]
             /\ rd' = [im \in Impls |-> n[im].t]
    /\ UNCHANGED <<gState, ctl, impl, cr, wr, srcCount, accepted, consumed, dropped>>

\* reset() on each of the three
EquivReset ==
    /\ rb' = [im \in Impls |-> ResetBuffer(rb[im])]
    /\ UNCHANGED <<gState, ctl, impl, cr, wr, rd, srcCount, accepted, consumed, dropped>>

EquivNext == EquivWrite \/ EquivRead \/ EquivReset

EquivSpec == EquivInit /\ [][EquivNext]_vars

\* two of the three have returned the same counts, delivered the same
\* output and hold the same number of frames
Agree(a, b) ==
    /\ wr[a].ret = wr[b].ret
    /\ rd[a].ret = rd[b].ret
    /\ rd[a].data = rd[b].data
    /\ AvailableFrames(rb[a]) = AvailableFrames(rb[b])

\* C24: the three ring-buffer implementations are one design: for the same
\* creation arguments and the same sequence of reset, write and read calls
\* with the same arguments, all three return the same counts, deliver the
\* same output samples and report the same number of buffered frames.
C24_ThreeImplementationsAgree ==
    \A a \in Impls, b \in Impls : Agree(a, b)

\* the three agree whenever the capacity asked for is a power of two, and
\* the C functions and the C++ class agree always
AgreeUpToCapacity ==
    /\ Agree("c", "hpp")
    /\ rb["drv"].bufferSize = rb["c"].bufferSize => Agree("c", "drv")

----------------------------------------------------------------------------
(* The driver: Plugin_StartIO and Plugin_StopIO of each client, step by    *)
(* step under the state mutex, and Plugin_DoIO, which writes to and reads  *)
(* from the ring buffer without the mutex.  The host calls Plugin_StopIO   *)
(* for a client after a Plugin_StartIO of that client has returned, and    *)
(* Plugin_DoIO for a client only between the return of its Plugin_StartIO  *)
(* and the call of its Plugin_StopIO.                                      *)

\* #define kDevice_ChannelCount 2
kDevice_ChannelCount == 2

\* the clients of the device
Clients == {"a", "b"}

\* a client with no call in flight and IO not started; old is the value its
\* fetch_add or fetch_sub returned, writing and reading tell the Plugin_DoIO
\* calls in flight for it
StoppedClient ==
    [ pc |-> "stopped", old |-> 0, writing |-> FALSE, reading |-> FALSE ]

\* the positions inside gState->ringBuffer->reset()
ResetPcs == {"reset_w", "reset_r", "reset_zero"}

\* AudiDeckDriverCreate has made the state and the ring buffer; the model
\* takes MaxReq frames for kDevice_RingBufferSize
DriverInit ==
    /\ impl = "drv"
    /\ cr = CreatedRecord(MaxReq, RealizedSize("drv", MaxReq),
                          kDevice_ChannelCount)
    /\ rb = NewRingBuffer(RealizedSize("drv", MaxReq), kDevice_ChannelCount)
    /\ wr = IdleWriter
    /\ rd = IdleReader
    /\ srcCount = 0
    /\ accepted = << >>
    /\ consumed = << >>
    /\ dropped = {}
    /\ gState = NewPlugInState
    /\ ctl = [c \in Clients |-> StoppedClient]

\* a step of a control call of client c: it touches no ring buffer thread
ControlStep(c, pc, old) ==
    /\ ctl' = [ctl EXCEPT ![c].pc = pc, ![c].old = old]
    /\ UNCHANGED <<impl, cr, wr, rd, srcCount, dropped>>

\* the host calls Plugin_StartIO for c
StartIOCall(c) ==
    /\ ctl[c].pc = "stopped"
    /\ ControlStep(c, "start_lock", 0)
    /\ UNCHANGED <<gState, rb, accepted, consumed>>

\* pthread_mutex_lock(&gState->mutex)
StartIOLock(c) ==
    /\ ctl[c].pc = "start_lock"
    /\ gState.mutex = "free"
    /\ gState' = [gState EXCEPT !.mutex = c]
    /\ ControlStep(c, "start_add", 0)
    /\ UNCHANGED <<rb, accepted, consumed>>

\* StartIOAdd going on to the reset whatever fetch_add returned
StartIOAddAlwaysResets(c) ==
    /\ ctl[c].pc = "start_add"
    /\ gState' = [gState EXCEPT !.clientCount = gState.clientCount + 1]
    /\ ControlStep(c, "start_run", gState.clientCount)
    /\ UNCHANGED <<rb, accepted, consumed>>

\* StartIOAdd never going on to the reset
StartIOAddNeverResets(c) ==
    /\ ctl[c].pc = "start_add"
    /\ gState' = [gState EXCEPT !.clientCount = gState.clientCount + 1]
    /\ ControlStep(c, "start_unlock", gState.clientCount)
    /\ UNCHANGED <<rb, accepted, consumed>>

\* if (gState->clientCount.fetch_add(1) == 0)
StartIOAdd(c) ==
    /\ ctl[c].pc = "start_add"
    /\ gState' = [gState EXCEPT !.clientCount = gState.clientCount + 1]
    /\ ControlStep(c, IF gState.clientCount = 0
                      THEN "start_run" ELSE "start_unlock",
                   gState.clientCount)
    /\ UNCHANGED <<rb, accepted, consumed>>

\* gState->isRunning.store(true), the anchor time and the timestamp counter
StartIORun(c) ==
    /\ ctl[c].pc = "start_run"
    /\ gState' = [gState EXCEPT !.isRunning = TRUE]
    /\ ControlStep(c, "reset_w", ctl[c].old)
    /\ UNCHANGED <<rb, accepted, consumed>>

\* reset(): mWritePos.store(0); the frames accepted so far are given up
ResetWritePos(c) ==
    /\ ctl[c].pc = "reset_w"
    /\ rb' = [rb EXCEPT !.writeIndex = 0]
    /\ accepted' = << >>
    /\ consumed' = << >>
    /\ ControlStep(c, "reset_r", ctl[c].old)
    /\ UNCHANGED gState

\* reset(): mReadPos.store(0)
ResetReadPos(c) ==
    /\ ctl[c].pc = "reset_r"
    /\ rb' = [rb EXCEPT !.readIndex = 0]
    /\ ControlStep(c, "reset_zero", ctl[c].old)
    /\ UNCHANGED <<gState, accepted, consumed>>

\* reset(): memset(mBuffer, 0, mFrames * mChannels * sizeof(float))
ResetZeroStore(c) ==
    /\ ctl[c].pc = "reset_zero"
    /\ rb' = [rb EXCEPT !.buffer = ZeroStore(rb.bufferSize, rb.channelCount)]
    /\ ControlStep(c, "start_unlock", ctl[c].old)
    /\ UNCHANGED <<gState, accepted, consumed>>

\* pthread_mutex_unlock(&gState->mutex); return from Plugin_StartIO
StartIOUnlock(c) ==
    /\ ctl[c].pc = "start_unlock"
    /\ gState' = [gState EXCEPT !.mutex = "free"]
    /\ ControlStep(c, "running", ctl[c].old)
    /\ UNCHANGED <<rb, accepted, consumed>>

\* the host calls Plugin_StopIO for c, no Plugin_DoIO of c being in flight
StopIOCall(c) ==
    /\ ctl[c].pc = "running"
    /\ ~ctl[c].writing
    /\ ~ctl[c].reading
    /\ ControlStep(c, "stop_lock", 0)
    /\ UNCHANGED <<gState, rb, accepted, consumed>>

\* pthread_mutex_lock(&gState->mutex)
StopIOLock(c) ==
    /\ ctl[c].pc = "stop_lock"
    /\ gState.mutex = "free"
    /\ gState' = [gState EXCEPT !.mutex = c]
    /\ ControlStep(c, "stop_sub", 0)
    /\ UNCHANGED <<rb, accepted, consumed>>

\* StopIOSub with the last client leaving isRunning as it is
StopIOSubKeepsRunning(c) ==
    /\ ctl[c].pc = "stop_sub"
    /\ gState' = [gState EXCEPT !.clientCount = gState.clientCount - 1]
    /\ ControlStep(c, "stop_unlock", gState.clientCount)
    /\ UNCHANGED <<rb, accepted, consumed>>

\* if (gState->clientCount.fetch_sub(1) == 1)
StopIOSub(c) ==
    /\ ctl[c].pc = "stop_sub"
    /\ gState' = [gState EXCEPT !.clientCount = gState.clientCount - 1]
    /\ ControlStep(c, IF gState.clientCount = 1
                      THEN "stop_flag" ELSE "stop_unlock",
                   gState.clientCount)
    /\ UNCHANGED <<rb, accepted, consumed>>

\* gState->isRunning.store(false)
StopIOFlag(c) ==
    /\ ctl[c].pc = "stop_flag"
    /\ gState' = [gState EXCEPT !.isRunning = FALSE]
    /\ ControlStep(c, "stop_unlock", ctl[c].old)
    /\ UNCHANGED <<rb, accepted, consumed>>

\* pthread_mutex_unlock(&gState->mutex); return from Plugin_StopIO
StopIOUnlock(c) ==
    /\ ctl[c].pc = "stop_unlock"
    /\ gState' = [gState EXCEPT !.mutex = "free"]
    /\ ControlStep(c, "stopped", ctl[c].old)
    /\ UNCHANGED <<rb, accepted, consumed>>

\* the host calls Plugin_DoIO(WriteMix) for c: ringBuffer->write begins
DoIOWriteMix(c) ==
    /\ ctl[c].pc = "running"
    /\ wr.pc = "idle"
    /\ \E frameCount \in 0 .. MaxFrames :
         /\ srcCount + frameCount <= MaxSrc
         /\ wr' = WriteCall(impl, SourceBlock(srcCount, frameCount,
                                              rb.channelCount), frameCount)
         /\ srcCount' = srcCount + frameCount
    /\ ctl' = [ctl EXCEPT ![c].writing = TRUE]
    /\ UNCHANGED <<gState, impl, cr, rb, rd, accepted, consumed, dropped>>

\* the host calls Plugin_DoIO(ReadInput) for c: ringBuffer->read begins
DoIOReadInput(c) ==
    /\ ctl[c].pc = "running"
    /\ rd.pc = "idle"
    /\ \E frameCount \in 0 .. MaxFrames :
         rd' = ReadCall(impl, "read", OutputBlock(frameCount, rb.channelCount),
                        frameCount)
    /\ ctl' = [ctl EXCEPT ![c].reading = TRUE]
    /\ UNCHANGED <<gState, impl, cr, rb, wr, srcCount, accepted, consumed,
                   dropped>>

\* a step of ringBuffer->write inside Plugin_DoIO; the call returns with
\* the last one
DoIOWriterMoves ==
    /\ wr.pc # "idle"
    /\ \E n \in {WriteStep(impl, rb, wr)} :
           /\ rb' = n.rb
           /\ wr' = n.t
           /\ accepted' = AcceptedAfter(n.t)
           /\ dropped' = DroppedAfter(n.t)
           /\ ctl' = IF n.t.pc = "idle"
                     THEN [c \in Clients |-> [ctl[c] EXCEPT !.writing = FALSE]]
                     ELSE ctl
    /\ UNCHANGED <<gState, impl, cr, rd, srcCount, consumed>>

\* a step of ringBuffer->read inside Plugin_DoIO; the call returns with the
\* last one
DoIOReaderMoves ==
    /\ rd.pc # "idle"
    /\ \E n \in {ReadStep(impl, rb, rd)} :
           /\ rb' = n.rb
           /\ rd' = n.t
           /\ consumed' = ConsumedAfter(rd, n.t)
           /\ ctl' = IF n.t.pc = "idle"
                     THEN [c \in Clients |-> [ctl[c] EXCEPT !.reading = FALSE]]
                     ELSE ctl
    /\ UNCHANGED <<gState, impl, cr, wr, srcCount, accepted, dropped>>

StartIO ==
    \E c \in Clients :
        \/ StartIOCall(c) \/ StartIOLock(c) \/ StartIOAdd(c) \/ StartIORun(c)
        \/ ResetWritePos(c) \/ ResetReadPos(c) \/ ResetZeroStore(c)
        \/ StartIOUnlock(c)

StopIO ==
    \E c \in Clients :
        \/ StopIOCall(c) \/ StopIOLock(c) \/ StopIOSub(c) \/ StopIOFlag(c)
        \/ StopIOUnlock(c)

DoIO ==
    \/ \E c \in Clients : DoIOWriteMix(c) \/ DoIOReadInput(c)
    \/ DoIOWriterMoves
    \/ DoIOReaderMoves

DriverNext == StartIO \/ StopIO \/ DoIO

DriverSpec == DriverInit /\ [][DriverNext]_vars

\* a reset() is in progress
Resetting == \E c \in Clients : ctl[c].pc \in ResetPcs

\* the clients whose Plugin_StartIO has counted them and whose Plugin_StopIO
\* has not yet discounted them
CountedClients ==
    { c \in Clients :
        ctl[c].pc \in {"start_run", "start_unlock", "running", "stop_lock",
                       "stop_sub"} \cup ResetPcs }

\* C26: in the driver the ring buffer is reset on every stopped-to-started
\* transition and only then: with every Plugin_StopIO matching an earlier
\* Plugin_StartIO, reset() is executed exactly by the Plugin_StartIO calls
\* that raise clientCount from 0 to 1, while the state mutex is held;
\* Plugin_StartIO calls made while clientCount >= 1 and all Plugin_StopIO
\* calls leave the cursors and the store unchanged.
C26_ResetExactlyOnFirstStart ==
    /\ [](gState.clientCount = Cardinality(CountedClients))
    /\ [](\A c \in Clients :
            /\ ctl[c].pc \in ResetPcs \cup {"start_run"} =>
                 /\ ctl[c].old = 0
                 /\ gState.clientCount = 1
                 /\ gState.mutex = c
            /\ ctl[c].pc = "start_unlock" =>
                 /\ gState.mutex = c
                 /\ gState.isRunning
                 /\ ctl[c].old = 0 => rb = ResetBuffer(rb)
                 /\ ctl[c].old = 0 <=> gState.clientCount = 1)
    /\ [][ \A c \in Clients :
             /\ (ctl'[c].pc # ctl[c].pc /\ ctl[c].pc \notin ResetPcs)
                  => rb' = rb
             /\ (ctl[c].pc = "start_add" /\ ctl'[c].pc # "start_add") =>
                  /\ ctl'[c].pc = "start_run" <=> gState.clientCount = 0
                  /\ gState'.clientCount = gState.clientCount + 1
             /\ (ctl[c].pc = "reset_zero" /\ ctl'[c].pc # "reset_zero")
                  => rb' = ResetBuffer(rb)
             /\ (~gState.isRunning /\ gState'.isRunning)
                  => (ctl[c].pc = "start_run" => ctl'[c].pc = "reset_w") ]_vars

\* a second client's Plugin_StartIO is about to return without a reset
\* while the first is running and frames written for it are unread
C26_Witness ==
    /\ ctl["a"].pc = "running"
    /\ ctl["b"].pc = "start_unlock"
    /\ ctl["b"].old = 1
    /\ gState.clientCount = 2
    /\ rb.writeIndex > rb.readIndex
    /\ srcCount > Len(accepted)
    /\ dropped = {}

\* C27: in the driver reset() never runs while a write() or read() of the
\* ring buffer is in flight, given that the host calls Plugin_DoIO for a
\* client only between the return of that client's Plugin_StartIO and the
\* call of its Plugin_StopIO: Plugin_DoIO takes no mutex, and the reset
\* happens on the clientCount 0-to-1 transition only.
C27_NoResetDuringIO ==
    /\ [](Resetting => (wr.pc = "idle" /\ rd.pc = "idle"))
    /\ [](Resetting => \A c \in Clients : ctl[c].pc # "running")
    /\ [](\A c \in Clients :
            (ctl[c].writing \/ ctl[c].reading) => ctl[c].pc = "running")
    /\ []((wr.pc # "idle" \/ rd.pc # "idle") => gState.clientCount >= 1)

\* a restart zeroes a store that holds frames of the run before, with the
\* other client waiting for the mutex in its Plugin_StartIO
C27_Witness ==
    /\ ctl["a"].pc = "reset_zero"
    /\ ctl["b"].pc = "start_lock"
    /\ srcCount >= 2
    /\ wr.ret >= 1
    /\ rd.ret >= 1
    /\ \E j \in DOMAIN rb.buffer : rb.buffer[j] # 0

----------------------------------------------------------------------------
(* reset() called with no regard for the writer and the reader: its three  *)
(* steps interleave with the steps of a write() and a read() in progress.  *)
(* The histories accepted and consumed run from construction on, a reset   *)
(* does not clear them; ctl holds the position of the thread that resets   *)
(* and whether the reset has yet overlapped a write() or a read().  One    *)
(* reset() is called in a behaviour.                                       *)

NoReset == [pc |-> "idle", raced |-> FALSE]

RaceInit ==
    /\ impl \in {"c", "hpp"}
    /\ \E frames \in 1 .. MaxReq - 1, channels \in {1} :
         LET size == RealizedSize(impl, frames)
         IN  /\ cr = CreatedRecord(frames, size, channels)
             /\ rb = NewRingBuffer(size, channels)
    /\ wr = IdleWriter
    /\ rd = IdleReader
    /\ srcCount = 0
    /\ accepted = << >>
    /\ consumed = << >>
    /\ dropped = {}
    /\ gState = NewPlugInState
    /\ ctl = NoReset

\* the resetting thread after a step that leaves it at pc, the writer with
\* the locals w and the reader with the locals r
ResetThread(pc, w, r) ==
    [ pc    |-> pc,
      raced |-> \/ ctl.raced
                \/ /\ pc \notin {"idle", "done"}
                   /\ (w.pc # "idle" \/ r.pc # "idle") ]

\* the writer calls write(data, frameCount)
RaceWriteBegin ==
    /\ wr.pc = "idle"
    /\ \E frameCount \in 1 .. MaxFrames :
         /\ srcCount + frameCount < MaxSrc
         /\ wr' = WriteCall(impl, SourceBlock(srcCount, frameCount,
                                              rb.channelCount), frameCount)
         /\ srcCount' = srcCount + frameCount
    /\ ctl' = ResetThread(ctl.pc, wr', rd)
    /\ UNCHANGED <<gState, impl, cr, rb, rd, accepted, consumed, dropped>>

\* the writer takes the step of write() it is at
RaceWriterMoves ==
    /\ wr.pc # "idle"
    /\ \E n \in {WriteStep(impl, rb, wr)} :
           /\ rb' = n.rb
           /\ wr' = n.t
           /\ accepted' = AcceptedAfter(n.t)
           /\ dropped' = DroppedAfter(n.t)
    /\ UNCHANGED <<gState, ctl, impl, cr, rd, srcCount, consumed>>

\* the reader calls read(data, frameCount)
RaceReadBegin ==
    /\ rd.pc = "idle"
    /\ \E frameCount \in 1 .. MaxFrames :
         /\ Len(consumed) + frameCount < MaxSrc
         /\ rd' = ReadCall(impl, "read",
                           OutputBlock(frameCount, rb.channelCount), frameCount)
    /\ ctl' = ResetThread(ctl.pc, wr, rd')
    /\ UNCHANGED <<gState, impl, cr, rb, wr, srcCount, accepted, consumed,
                   dropped>>

\* the reader takes the step of read() it is at
RaceReaderMoves ==
    /\ rd.pc # "idle"
    /\ \E n \in {ReadStep(impl, rb, rd)} :
           /\ rb' = n.rb
           /\ rd' = n.t
           /\ consumed' = ConsumedAfter(rd, n.t)
    /\ UNCHANGED <<gState, ctl, impl, cr, wr, srcCount, accepted, dropped>>

\* a thread calls reset()
ResetCall ==
    /\ ctl.pc = "idle"
    /\ ctl' = ResetThread("store_w", wr, rd)
    /\ UNCHANGED <<gState, impl, cr, rb, wr, rd, srcCount, accepted, consumed,
                   dropped>>

\* atomic_store(&buffer->writeIndex, 0)
ResetStoreWriteIndex ==
    /\ ctl.pc = "store_w"
    /\ rb' = [rb EXCEPT !.writeIndex = 0]
    /\ ctl' = ResetThread("store_r", wr, rd)
    /\ UNCHANGED <<gState, impl, cr, wr, rd, srcCount, accepted, consumed,
                   dropped>>

\* ResetStoreReadIndex leaving the read cursor where it is
ResetStoreReadIndexSkipped ==
    /\ ctl.pc = "store_r"
    /\ ctl' = ResetThread("memset", wr, rd)
    /\ UNCHANGED <<gState, impl, cr, rb, wr, rd, srcCount, accepted, consumed,
                   dropped>>

\* atomic_store(&buffer->readIndex, 0)
ResetStoreReadIndex ==
    /\ ctl.pc = "store_r"
    /\ rb' = [rb EXCEPT !.readIndex = 0]
    /\ ctl' = ResetThread("memset", wr, rd)
    /\ UNCHANGED <<gState, impl, cr, wr, rd, srcCount, accepted, consumed,
                   dropped>>

\* memset(buffer->buffer, 0, totalSamples * sizeof(float)); return
ResetMemset ==
    /\ ctl.pc = "memset"
    /\ rb' = [rb EXCEPT !.buffer = ZeroStore(rb.bufferSize, rb.channelCount)]
    /\ ctl' = ResetThread("done", wr, rd)
    /\ UNCHANGED <<gState, impl, cr, wr, rd, srcCount, accepted, consumed,
                   dropped>>

RaceNext ==
    \/ RaceWriteBegin \/ RaceWriterMoves
    \/ RaceReadBegin \/ RaceReaderMoves
    \/ ResetCall \/ ResetStoreWriteIndex \/ ResetStoreReadIndex \/ ResetMemset

RaceSpec == RaceInit /\ [][RaceNext]_vars

\* readCursor <= writeCursor and writeCursor - readCursor <= capacity
CursorsInOrder ==
    /\ rb.readIndex <= rb.writeIndex
    /\ rb.writeIndex - rb.readIndex <= rb.bufferSize

\* the frames a read() has delivered that no write() has accepted
NeverAccepted ==
    { k \in 1 .. Len(consumed) :
        \A j \in 1 .. Len(accepted) : accepted[j] # consumed[k] }

\* C28: reset() is not safe concurrently with a read() or write() in
\* flight.  As long as no reset() has overlapped a write() or a read(), the
\* cursors are in order and within the capacity of each other (but between
\* the two stores of a reset, where nobody looks) and every frame delivered
\* was accepted; once the steps of a reset() interleave with
\* a write() or read() in progress, states that violate readCursor <=
\* writeCursor or writeCursor - readCursor <= capacity are reached and a
\* read() delivers frames that no write() accepted.
C28_OnlyOverlappedResetBreaksCursors ==
    ~ctl.raced =>
        /\ ctl.pc # "store_r" => CursorsInOrder
        /\ NeverAccepted = {}

\* a reset() overlapped the calls in flight, the read cursor is ahead of
\* the write cursor, and a read() has returned frames no write() accepted
C28_Witness ==
    /\ ctl.raced
    /\ rb.readIndex > rb.writeIndex
    /\ rd.pc = "idle" /\ rd.ret >= 1
    /\ NeverAccepted # {}

\* a reset() overlapped a write() in flight and the cursors are further
\* apart than the capacity
C28_OverfullReached ==
    /\ ctl.raced
    /\ rb.writeIndex - rb.readIndex > rb.bufferSize

\* a reset() overlapped, the cursors are in order again, and frames the
\* reader has been given were never accepted
C28_GarbageReached ==
    /\ ctl.raced
    /\ CursorsInOrder
    /\ NeverAccepted # {}

----------------------------------------------------------------------------
(* A reader that keeps calling: no reset(), every call of the reader asks  *)
(* for at least one frame, and the reader thread is scheduled fairly.  The *)
(* writer may stop at any time.                                            *)

\* the reader calls read(data, frameCount) or skip(frameCount),
\* frameCount >= 1
LiveReadBegin ==
    /\ cr.pc = "created"
    /\ rd.pc = "idle"
    /\ \E op \in ReaderOps(impl) \ {"peek"}, frameCount \in 1 .. MaxFrames :
         rd' = ReadCall(impl, op,
                        IF op = "skip" THEN << >>
                        ELSE OutputBlock(frameCount, rb.channelCount),
                        frameCount)
    /\ UNCHANGED <<gState, ctl, impl, cr, rb, wr, srcCount, accepted, consumed,
                   dropped>>

\* a created buffer of one channel: how many samples a frame has plays no
\* part in whether it is read
LiveInit == Init /\ rb.channelCount = 1

LiveNext == WriteBegin \/ WriterMoves \/ LiveReadBegin \/ ReaderMoves

LiveSpec ==
    /\ LiveInit
    /\ [][LiveNext]_vars
    /\ WF_vars(LiveReadBegin)
    /\ WF_vars(ReaderMoves)

\* the k-th frame accepted since construction has been delivered or passed
\* over, as the k-th frame consumed
Delivered(k) == Len(consumed) >= k /\ consumed[k] = accepted[k]

\* C29: every frame accepted by a write() is eventually delivered by a
\* read() or passed over by a skip(), provided the reader keeps calling
\* with frameCount >= 1, the reader thread is scheduled fairly and no
\* reset() occurs: no accepted frame stays in the buffer forever.
C29_AcceptedFramesAreEventuallyConsumed ==
    \A k \in 1 .. MaxSrc : (Len(accepted) >= k) ~> Delivered(k)

\* a read() has just returned the last of the frames accepted so far, the
\* store having wrapped
C29_Witness ==
    /\ rd.pc = "idle" /\ rd.op = "read" /\ rd.ret >= 1
    /\ Len(accepted) > rb.bufferSize
    /\ consumed = accepted
    /\ rb.readIndex = rb.writeIndex

----------------------------------------------------------------------------
(* Who stores what *)

\* the step taken is one of write()
WriterStepped == wr.pc # "idle" /\ wr' # wr

\* the step taken is one of read(), peek() or skip()
ReaderStepped == rd.pc # "idle" /\ rd' # rd

\* the pcs at which write(), read(), peek() and skip() are inside
\* availableFrames() / freeFrames()
AvailPcs == {"avail_w", "avail_r"}

\* C30: each cursor has a single owner: write() never stores to readCursor,
\* and read(), peek() and skip() never store to writeCursor or to any sample
\* of the store; availableFrames() and freeFrames() change no state at all.
C30_EachCursorHasOneOwner ==
    [][ /\ WriterStepped => rb'.readIndex = rb.readIndex
        /\ ReaderStepped => /\ rb'.writeIndex = rb.writeIndex
                            /\ rb'.buffer = rb.buffer
        /\ (WriterStepped /\ wr.pc \in AvailPcs) => rb' = rb
        /\ (ReaderStepped /\ rd.pc \in AvailPcs) => rb' = rb
        /\ (WriterStepped \/ ReaderStepped) =>
             /\ rb'.bufferSize = rb.bufferSize
             /\ rb'.channelCount = rb.channelCount ]_vars

\* the reader has stored its cursor and returned frames while a write()
\* that has copied its frames has yet to store the write cursor
C30_Witness ==
    /\ wr.pc = "publish" /\ wr.framesToWrite >= 1
    /\ rd.pc = "idle" /\ rd.op \in {"read", "skip"}
    /\ rb.readIndex >= 1
    /\ rb.readIndex = Len(consumed)
    /\ rb.writeIndex = Len(accepted)

----------------------------------------------------------------------------
(* The free count of a write() in progress *)

\* write() has computed its free count and its framesToWrite
WriterCounted == wr.pc \in {"load_w", "copy", "publish"}

\* the free count write() computed from the cursors it loaded
WriterFree == rb.bufferSize - Avail32(wr.writeIdx, wr.readIdx)

\* C31: the free count the writer computes at the start of write() never
\* overstates the free space: under any interleaving with a concurrent
\* read() or skip() it is at most capacity - (writeCursor - readCursor) at
\* every later instant of the same write(), so the framesToWrite slots the
\* writer fills are free during the whole copy.
C31_WriterFreeCountNeverOverstates ==
    WriterCounted =>
        /\ wr.framesToWrite <= WriterFree
        /\ WriterFree <= rb.bufferSize - (rb.writeIndex - rb.readIndex)
        /\ WriterSlots \cap PublishedSlots = {}

\* in the middle of the copy of a write(), the reader having consumed some
\* of the unread frames since the writer loaded readIndex
C31_Witness ==
    /\ wr.pc = "copy" /\ wr.i >= 1 /\ wr.i < wr.framesToWrite
    /\ rb.readIndex > wr.readIdx
    /\ WriterFree < rb.bufferSize - (rb.writeIndex - rb.readIndex)
    /\ PublishedSlots # {}

----------------------------------------------------------------------------
(* Frame accounting *)

\* the frames the call of the reader that returns with the locals r has
\* taken out of a buffer b: what read() returned, what skip() passed over
TakenBy(b, r) ==
    IF r.op = "read" THEN r.ret
    ELSE IF r.op = "skip" THEN Min(r.frameCount, AvailableFrames(b))
    ELSE 0

\* C32: frame accounting: in every quiescent state since the last create or
\* reset(), writeCursor equals the sum of the values returned by all
\* write() calls, readCursor equals the sum of the values returned by all
\* read() calls plus the frames passed over by all skip() calls, and
\* availableFrames() equals their difference.  Every call adds what it
\* returns to its cursor (a skip() that repeats the one before leaves the
\* reader's locals as they were), a reset() starts both sums at 0 again,
\* and the histories hold as many frames as the sums.
C32_CursorsAreSumsOfReturnedCounts ==
    /\ [](Quiescent =>
            /\ rb.writeIndex = Len(accepted)
            /\ rb.readIndex = Len(consumed)
            /\ AvailableFrames(rb) = Len(accepted) - Len(consumed))
    /\ [][ /\ wr' # wr =>
                /\ rb'.writeIndex = rb.writeIndex + wr'.ret
                /\ rb'.readIndex = rb.readIndex
                /\ Len(accepted') = Len(accepted) + wr'.ret
                /\ consumed' = consumed
           /\ rd' # rd =>
                /\ rb'.readIndex = rb.readIndex + TakenBy(rb, rd')
                /\ rb'.writeIndex = rb.writeIndex
                /\ Len(consumed') = Len(consumed) + TakenBy(rb, rd')
                /\ accepted' = accepted
           /\ (wr' = wr /\ rd' = rd /\ rb' # rb) =>
                \/ /\ rb'.writeIndex = 0 /\ rb'.readIndex = 0
                   /\ accepted' = << >> /\ consumed' = << >>
                \/ /\ rd.op = "skip"
                   /\ rb'.readIndex = rb.readIndex + TakenBy(rb, rd)
                   /\ rb'.writeIndex = rb.writeIndex
                   /\ Len(consumed') = Len(consumed) + TakenBy(rb, rd)
                   /\ accepted' = accepted ]_vars

\* a skip() has passed over fewer frames than asked for, after reads and
\* after a write() that was accepted in part
C32_Witness ==
    /\ Quiescent
    /\ rd.op = "skip" /\ rd.frameCount = 2
    /\ wr.ret >= 1 /\ wr.ret < wr.frameCount
    /\ rb.readIndex = 3
    /\ rb.writeIndex = 3

----------------------------------------------------------------------------
(* peek() then skip() against read() *)

\* the whole call op(data, n) of the C functions on the quiescent buffer b,
\* data being the caller's block as it is before the call
ReaderCallOn(b, op, n) ==
    RunRead("c", b, ReadCall("c", op,
                             IF op = "skip" THEN << >>
                             ELSE OutputBlock(n, b.channelCount),
                             n))

\* C33: on a quiescent buffer, peek(data, n) followed by skip(n) is
\* equivalent to read(data, n) as far as the buffer and the valid frames
\* are concerned: both leave the same cursors and store, and the first
\* min(n, availableFrames()) output frames are identical; two consecutive
\* peek() calls with the same n return the same count and the same frames.
C33_PeekThenSkipIsRead ==
    (impl = "c" /\ Quiescent) =>
        \A n \in 0 .. MaxFrames :
            \E peek \in {ReaderCallOn(rb, "peek", n)},
               read \in {ReaderCallOn(rb, "read", n)} :
               \E skip  \in {ReaderCallOn(peek.rb, "skip", n)},
                  again \in {ReaderCallOn(peek.rb, "peek", n)} :
                  /\ skip.rb = read.rb
                  /\ peek.t.ret = Min(n, AvailableFrames(rb))
                  /\ read.t.ret = peek.t.ret
                  /\ Frames(peek.t.data, 0, peek.t.ret, rb.channelCount)
                       = Frames(read.t.data, 0, read.t.ret, rb.channelCount)
                  /\ again.t.ret = peek.t.ret
                  /\ again.t.data = peek.t.data
                  /\ again.rb = rb

\* a peek() for more frames than there are has just returned the one frame
\* left, from a store that has wrapped
C33_Witness ==
    /\ impl = "c" /\ Quiescent
    /\ rd.op = "peek" /\ rd.frameCount = 2 /\ rd.ret = 1
    /\ AvailableFrames(rb) = 1
    /\ rb.writeIndex > rb.bufferSize
    /\ rb.channelCount >= 2

----------------------------------------------------------------------------
(* Termination of construction (FairCreateSpec) *)

\* AudioRingBuffer_Create has returned, the constructor has returned or
\* thrown
CreateReturned == cr.pc \in {"created", "null", "threw"}

\* C34: AudioRingBuffer_Create and the AudioRingBuffer constructor terminate
\* for every 32-bit unsigned bufferSizeFrames: the doubling loop that rounds
\* the size up to a power of two ends for all requests, those above 2^31
\* included.
C34_CreateTerminates == <>CreateReturned

\* construction terminates for every request up to 2^31
CreateTerminatesUpTo2Pow31 ==
    ~U32Less(U32Pow2(31), cr.bufferSizeFrames) ~> CreateReturned

----------------------------------------------------------------------------
(* The C functions called with or without their arguments (ArgSpec): every *)
(* call passes the buffer or NULL and, where there is one, a block or      *)
(* NULL.  Calls run one at a time.  ctl is the call made last: function,   *)
(* arguments, value returned, and a bit that tells a call from the one     *)
(* before.                                                                 *)

Pointers == {"null", "valid"}

\* the record of a call of fn(buffer, data, ..) that returned ret
CalledWith(fn, buffer, data, ret) ==
    [ fn |-> fn, buffer |-> buffer, data |-> data, ret |-> ret,
      tick |-> ~ctl.tick ]

ArgInit ==
    /\ impl = "c"
    /\ \E frames \in 1 .. MaxReq - 1, channels \in {1} :
         LET size == RealizedSize(impl, frames)
         IN  /\ cr = CreatedRecord(frames, size, channels)
             /\ rb = NewRingBuffer(size, channels)
    /\ wr = IdleWriter
    /\ rd = IdleReader
    /\ srcCount = 0
    /\ accepted = << >>
    /\ consumed = << >>
    /\ dropped = {}
    /\ gState = NewPlugInState
    /\ ctl = [ fn |-> "none", buffer |-> "valid", data |-> "valid", ret |-> 0,
               tick |-> FALSE ]

\* a valid buffer can be passed until it is destroyed
CanPass(buffer) == buffer = "valid" => cr.pc = "created"

\* the frame counts of a call: one stands for all when a missing argument
\* makes the call return before it looks at the count
FrameCounts(buffer, data) ==
    IF buffer = "null" \/ data = "null" THEN {MaxFrames} ELSE 0 .. MaxFrames

\* AudioRingBuffer_Write(buffer, data, frameCount):
\* if (!buffer || !data || frameCount == 0) return 0;
ArgWrite ==
    \E buffer \in Pointers, data \in Pointers :
      \E frameCount \in FrameCounts(buffer, data) :
        /\ CanPass(buffer)
        /\ IF buffer = "null" \/ data = "null" \/ frameCount = 0
           THEN /\ ctl' = CalledWith("Write", buffer, data, 0)
                /\ UNCHANGED <<rb, wr, srcCount, accepted, dropped>>
           ELSE /\ srcCount + frameCount < MaxSrc
                /\ \E n \in {RunWrite(impl, rb,
                                 WriteCall(impl,
                                           SourceBlock(srcCount, frameCount,
                                                       rb.channelCount),
                                           frameCount))} :
                       /\ rb' = n.rb
                       /\ wr' = n.t
                       /\ accepted' = AcceptedAfter(n.t)
                       /\ dropped' = DroppedAfter(n.t)
                       /\ ctl' = CalledWith("Write", buffer, data, n.t.ret)
                /\ srcCount' = srcCount + frameCount
        /\ UNCHANGED <<gState, impl, cr, rd, consumed>>

\* AudioRingBuffer_Read / AudioRingBuffer_Peek (buffer, data, frameCount):
\* if (!buffer || !data || frameCount == 0) return 0;
ArgRead ==
    \E fn \in {"Read", "Peek"}, buffer \in Pointers, data \in Pointers :
      \E frameCount \in FrameCounts(buffer, data) :
        /\ CanPass(buffer)
        /\ IF buffer = "null" \/ data = "null" \/ frameCount = 0
           THEN /\ ctl' = CalledWith(fn, buffer, data, 0)
                /\ UNCHANGED <<rb, rd, consumed>>
           ELSE \E n \in {RunRead(impl, rb,
                              ReadCall(impl,
                                       IF fn = "Read" THEN "read" ELSE "peek",
                                       OutputBlock(frameCount, rb.channelCount),
                                       frameCount))} :
                    /\ rb' = n.rb
                    /\ rd' = n.t
                    /\ consumed' =
                         IF fn = "Read"
                         THEN consumed \o Frames(n.t.data, 0, n.t.ret,
                                                 rb.channelCount)
                         ELSE consumed
                    /\ ctl' = CalledWith(fn, buffer, data, n.t.ret)
        /\ UNCHANGED <<gState, impl, cr, wr, srcCount, accepted, dropped>>

\* AudioRingBuffer_Skip(buffer, frameCount):
\* if (!buffer || frameCount == 0) return;
ArgSkip ==
    \E buffer \in Pointers :
      \E frameCount \in FrameCounts(buffer, "none") :
        /\ CanPass(buffer)
        /\ ctl' = CalledWith("Skip", buffer, "none", 0)
        /\ IF buffer = "null" \/ frameCount = 0
           THEN UNCHANGED <<rb, rd, consumed>>
           ELSE \E n \in {RunRead(impl, rb,
                              ReadCall(impl, "skip", << >>, frameCount))} :
                    /\ rb' = n.rb
                    /\ rd' = n.t
                    /\ consumed' = consumed \o
                         StoredFrames(impl, rb, rb.readIndex, n.rb.readIndex)
        /\ UNCHANGED <<gState, impl, cr, wr, srcCount, accepted, dropped>>

\* AudioRingBuffer_GetAvailableFrames / AudioRingBuffer_GetFreeFrames:
\* if (!buffer) return 0;
ArgQuery ==
    \E fn \in {"GetAvailableFrames", "GetFreeFrames"}, buffer \in Pointers :
        /\ CanPass(buffer)
        /\ ctl' = CalledWith(fn, buffer, "none",
                             IF buffer = "null" THEN 0
                             ELSE IF fn = "GetAvailableFrames"
                             THEN AvailableFrames(rb)
                             ELSE FreeFrames(rb))
        /\ UNCHANGED <<gState, impl, cr, rb, wr, rd, srcCount, accepted,
                       consumed, dropped>>

\* ArgReset without the test of its argument: the one buffer there is is
\* reset whatever is passed
ArgResetUnguarded ==
    \E buffer \in Pointers :
        /\ CanPass(buffer)
        /\ cr.pc = "created"
        /\ ctl' = CalledWith("Reset", buffer, "none", 0)
        /\ rb' = ResetBuffer(rb)
        /\ accepted' = << >>
        /\ consumed' = << >>
        /\ UNCHANGED <<gState, impl, cr, wr, rd, srcCount, dropped>>

\* AudioRingBuffer_Reset(buffer): if (buffer) { .. }
ArgReset ==
    \E buffer \in Pointers :
        /\ CanPass(buffer)
        /\ ctl' = CalledWith("Reset", buffer, "none", 0)
        /\ IF buffer = "null"
           THEN UNCHANGED <<rb, accepted, consumed>>
           ELSE /\ rb' = ResetBuffer(rb)
                /\ accepted' = << >>
                /\ consumed' = << >>
        /\ UNCHANGED <<gState, impl, cr, wr, rd, srcCount, dropped>>

\* AudioRingBuffer_Destroy(buffer): if (buffer) { free the store, free the
\* descriptor }
ArgDestroy ==
    \E buffer \in Pointers :
        /\ CanPass(buffer)
        /\ ctl' = CalledWith("Destroy", buffer, "none", 0)
        /\ IF buffer = "null"
           THEN UNCHANGED <<cr, rb>>
           ELSE /\ cr' = [cr EXCEPT !.pc = "destroyed", !.heap = {}]
                /\ rb' = NullBuffer
        /\ UNCHANGED <<gState, impl, wr, rd, srcCount, accepted, consumed,
                       dropped>>

ArgNext ==
    ArgWrite \/ ArgRead \/ ArgSkip \/ ArgQuery \/ ArgReset \/ ArgDestroy

ArgSpec == ArgInit /\ [][ArgNext]_vars

\* C35: the C functions treat missing arguments as an empty result without
\* touching state: with a NULL buffer, GetAvailableFrames, GetFreeFrames,
\* Write, Read and Peek return 0 and Reset, Skip and Destroy do nothing;
\* with a valid buffer but NULL data, Write, Read and Peek return 0 and
\* leave both cursors and the store unchanged.
C35_MissingArgumentsChangeNothing ==
    [][ /\ ctl'.buffer = "null" =>
             /\ ctl'.ret = 0
             /\ UNCHANGED <<cr, rb, wr, rd, accepted, consumed>>
        /\ (ctl'.buffer = "valid" /\ ctl'.data = "null") =>
             /\ ctl'.fn \in {"Write", "Read", "Peek"}
             /\ ctl'.ret = 0
             /\ UNCHANGED <<cr, rb, wr, rd, accepted, consumed>> ]_vars

\* Reset(NULL) has just left alone a buffer that has wrapped and holds
\* unread frames
C35_Witness ==
    /\ ctl.fn = "Reset" /\ ctl.buffer = "null"
    /\ cr.pc = "created"
    /\ rb.writeIndex > rb.bufferSize
    /\ rb.writeIndex > rb.readIndex
    /\ \E j \in DOMAIN rb.buffer : rb.buffer[j] # 0

----------------------------------------------------------------------------
(* isRunning and clientCount *)

\* the clients whose Plugin_StartIO has returned and whose Plugin_StopIO,
\* if called, has not
StartedClients ==
    { c \in Clients : ctl[c].pc \in {"running", "stop_lock", "stop_sub",
                                     "stop_flag", "stop_unlock"} }

\* no Plugin_StartIO and no Plugin_StopIO is between its lock and its unlock
NoCallInside == gState.mutex = "free"

\* C36: in the driver, after any sequence of Plugin_StartIO and
\* Plugin_StopIO calls in which every StopIO matches an earlier StartIO,
\* isRunning is true exactly when clientCount > 0, and clientCount equals
\* the number of StartIO calls minus the number of StopIO calls.  Inside a
\* call the two differ only between the change of the count and the store
\* of the flag.
C36_RunningIffClients ==
    /\ NoCallInside =>
         /\ gState.isRunning <=> gState.clientCount > 0
         /\ gState.clientCount = Cardinality(StartedClients)
    /\ (\A c \in Clients : ctl[c].pc \notin {"start_run", "stop_flag"}) =>
         (gState.isRunning <=> gState.clientCount > 0)
    /\ gState.clientCount \in 0 .. Cardinality(Clients)

\* both clients have started, done I/O and stopped again
C36_Witness ==
    /\ NoCallInside
    /\ \A c \in Clients : ctl[c].pc = "stopped"
    /\ gState.clientCount = 0
    /\ ~gState.isRunning
    /\ srcCount = MaxSrc
    /\ rb.readIndex >= 1

----------------------------------------------------------------------------
(* Plugin_DoIO as a whole, with the mute and volume controls (MuteSpec):   *)
(* the device is running for one client, the I/O cycles come one at a     *)
(* time, and the controls are set between them.  Volumes are whole        *)
(* numbers, so that a sample times the volume is exact.  ctl is the cycle *)
(* run last, rd.data the block the host gets back.                        *)

MuteInit ==
    /\ impl = "drv"
    /\ \E frames \in 1 .. MaxReq :
         /\ cr = CreatedRecord(frames, RealizedSize(impl, frames),
                               kDevice_ChannelCount)
         /\ rb = NewRingBuffer(RealizedSize(impl, frames), kDevice_ChannelCount)
    /\ wr = IdleWriter
    /\ rd = IdleReader
    /\ srcCount = 0
    /\ accepted = << >>
    /\ consumed = << >>
    /\ dropped = {}
    /\ gState = [ clientCount |-> 1, isRunning |-> TRUE, mutex |-> "free",
                  volume |-> 1, muted |-> FALSE ]
    /\ ctl = [operationID |-> "none", bufferFrames |-> 0, tick |-> FALSE]

\* if (muted) memset(buffer, 0, ..) else if (vol != 1.0f) buffer[i] *= vol
AfterVolumeAndMute(block) ==
    IF gState.muted
    THEN [j \in DOMAIN block |-> 0]
    ELSE IF gState.volume # 1
    THEN [j \in DOMAIN block |-> block[j] * gState.volume]
    ELSE block

\* Plugin_DoIO reading nothing from the ring buffer while muted
Plugin_DoIOMutedSkipsRead ==
    \E operationID \in {"WriteMix", "ReadInput", "Other"},
       bufferFrames \in 0 .. MaxFrames :
        /\ ctl' = [ operationID |-> operationID, bufferFrames |-> bufferFrames,
                    tick |-> ~ctl.tick ]
        /\ CASE operationID = "WriteMix" ->
                  /\ srcCount + bufferFrames <= MaxSrc
                  /\ \E n \in {RunWrite(impl, rb,
                                   WriteCall(impl,
                                             SourceBlock(srcCount, bufferFrames,
                                                         rb.channelCount),
                                             bufferFrames))} :
                         /\ rb' = n.rb
                         /\ wr' = n.t
                         /\ accepted' = AcceptedAfter(n.t)
                         /\ dropped' = DroppedAfter(n.t)
                  /\ srcCount' = srcCount + bufferFrames
                  /\ UNCHANGED <<rd, consumed>>
             [] operationID = "ReadInput" ->
                  /\ IF gState.muted
                     THEN /\ rd' = [IdleReader EXCEPT
                                      !.op = "read",
                                      !.data = AfterVolumeAndMute(
                                                 OutputBlock(bufferFrames,
                                                             rb.channelCount)),
                                      !.frameCount = bufferFrames]
                          /\ UNCHANGED <<rb, consumed>>
                     ELSE \E n \in {RunRead(impl, rb,
                                ReadCall(impl, "read",
                                         OutputBlock(bufferFrames,
                                                     rb.channelCount),
                                         bufferFrames))} :
                         /\ rb' = n.rb
                         /\ rd' = [n.t EXCEPT
                                     !.data = AfterVolumeAndMute(n.t.data)]
                         /\ consumed' = consumed \o
                              Frames(n.t.data, 0, n.t.ret, rb.channelCount)
                  /\ UNCHANGED <<wr, srcCount, accepted, dropped>>
             [] operationID = "Other" ->
                  /\ rd' = [IdleReader EXCEPT
                              !.data = OutputBlock(bufferFrames,
                                                   rb.channelCount),
                              !.frameCount = bufferFrames]
                  /\ UNCHANGED <<rb, wr, srcCount, accepted, consumed, dropped>>
        /\ UNCHANGED <<gState, impl, cr>>

\* Plugin_DoIO(.., operationID, bufferFrames, .., mainBuffer, ..)
Plugin_DoIO ==
    \E operationID \in {"WriteMix", "ReadInput", "Other"},
       bufferFrames \in 0 .. MaxFrames :
        /\ ctl' = [ operationID |-> operationID, bufferFrames |-> bufferFrames,
                    tick |-> ~ctl.tick ]
        /\ CASE operationID = "WriteMix" ->
                  /\ srcCount + bufferFrames <= MaxSrc
                  /\ \E n \in {RunWrite(impl, rb,
                                   WriteCall(impl,
                                             SourceBlock(srcCount, bufferFrames,
                                                         rb.channelCount),
                                             bufferFrames))} :
                         /\ rb' = n.rb
                         /\ wr' = n.t
                         /\ accepted' = AcceptedAfter(n.t)
                         /\ dropped' = DroppedAfter(n.t)
                  /\ srcCount' = srcCount + bufferFrames
                  /\ UNCHANGED <<rd, consumed>>
             [] operationID = "ReadInput" ->
                  /\ \E n \in {RunRead(impl, rb,
                                ReadCall(impl, "read",
                                         OutputBlock(bufferFrames,
                                                     rb.channelCount),
                                         bufferFrames))} :
                         /\ rb' = n.rb
                         /\ rd' = [n.t EXCEPT
                                     !.data = AfterVolumeAndMute(n.t.data)]
                         /\ consumed' = consumed \o
                              Frames(n.t.data, 0, n.t.ret, rb.channelCount)
                  /\ UNCHANGED <<wr, srcCount, accepted, dropped>>
             [] operationID = "Other" ->
                  /\ rd' = [IdleReader EXCEPT
                              !.data = OutputBlock(bufferFrames,
                                                   rb.channelCount),
                              !.frameCount = bufferFrames]
                  /\ UNCHANGED <<rb, wr, srcCount, accepted, consumed, dropped>>
        /\ UNCHANGED <<gState, impl, cr>>

\* Plugin_SetPropertyData: the volume control and the mute control
Plugin_SetPropertyData ==
    /\ \E volume \in {0, 1, 2}, muted \in BOOLEAN :
         /\ volume = gState.volume \/ muted = gState.muted
         /\ gState' = [gState EXCEPT !.volume = volume, !.muted = muted]
    /\ UNCHANGED <<ctl, impl, cr, rb, wr, rd, srcCount, accepted, consumed,
                   dropped>>

MuteNext == Plugin_DoIO \/ Plugin_SetPropertyData

MuteSpec == MuteInit /\ [][MuteNext]_vars

\* C37: in Plugin_DoIO a ReadInput operation while muted delivers an
\* all-zero block of bufferFrames frames but still consumes from the ring
\* buffer: readCursor advances by min(bufferFrames, buffered frames); a
\* WriteMix operation writes min(bufferFrames, free frames) frames whatever
\* the mute state; any other operationID leaves the ring buffer and the
\* block unchanged.
C37_MutedReadStillConsumes ==
    [][ ctl'.tick # ctl.tick =>
          /\ (ctl'.operationID = "ReadInput" /\ gState.muted) =>
               /\ rd'.data = [j \in 0 .. ctl'.bufferFrames * kDevice_ChannelCount
                                         - 1 |-> 0]
               /\ rb'.readIndex = rb.readIndex
                                    + Min(ctl'.bufferFrames, AvailableFrames(rb))
               /\ rb'.writeIndex = rb.writeIndex
               /\ rb'.buffer = rb.buffer
          /\ ctl'.operationID = "WriteMix" =>
               /\ wr'.ret = Min(ctl'.bufferFrames, FreeFrames(rb))
               /\ rb'.writeIndex = rb.writeIndex + wr'.ret
               /\ rb'.readIndex = rb.readIndex
               /\ \A i \in 0 .. wr'.ret - 1 :
                    Frame(rb'.buffer, BufferPos(impl, rb, rb.writeIndex + i),
                          rb.channelCount)
                      = Frame(wr'.data, i, rb.channelCount)
          /\ ctl'.operationID = "Other" =>
               /\ rb' = rb
               /\ rd'.data = OutputBlock(ctl'.bufferFrames, rb.channelCount) ]_vars

\* a muted ReadInput cycle of two frames has just taken the one frame that
\* was buffered and given back silence
C37_Witness ==
    /\ ctl.operationID = "ReadInput" /\ ctl.bufferFrames = 2
    /\ gState.muted
    /\ Len(consumed) >= 1
    /\ rb.readIndex = rb.writeIndex
    /\ rb.readIndex = Len(consumed)
    /\ \A j \in DOMAIN rd.data : rd.data[j] = 0
    /\ \E j \in DOMAIN rb.buffer : rb.buffer[j] # 0

\* a WriteMix cycle has stored frames while the device is muted
C37_MutedWriteReached ==
    /\ ctl.operationID = "WriteMix"
    /\ gState.muted
    /\ wr.ret >= 1 /\ wr.ret < wr.frameCount

====
